---- MODULE Spec2Model ----
(***************************************************************************)
(* A model of the Chrome NetLog correlator of wptagent:                    *)
(* internal/support/netlog_parser.py (class NetLog).                       *)
(*                                                                         *)
(* Python dicts are modelled as functions with a dynamic DOMAIN ("k in d"  *)
(* is k \in DOMAIN d); a dict whose iteration order the code relies on is  *)
(* a table [ids |-> insertion order, at |-> id -> entry].  Text that the   *)
(* code takes apart (lines, urls, group names, headers) is modelled as     *)
(* the parts the code looks at.                                            *)
(***************************************************************************)
EXTENDS Integers, Sequences, FiniteSets, TLC

VARIABLES
    constants,          \* NetLog.constants: the inverted lookup tables
    processing_events,  \* process_netlog: the framer's mode
    netlog,             \* NetLog.netlog: the entity store
    netlog_requests,    \* NetLog.netlog_requests: the cached output
    start_time,         \* NetLog.start_time
    file,               \* the lines of the input read so far
    pc,                 \* "reading" | "written" | "raised" | "stream"
    scenario,           \* which family of input lines the run draws from
    out_file,           \* what write_json left of the output file
    lock,               \* ChromeDesktop.netlog_lock: who holds it
    cpc,                \* where the thread of process_netlog_stream is
    hpc,                \* where the harness thread is
    pipe,               \* the FIFO: its writer's state and the line in it
    cd,                 \* ChromeDesktop: netlog_in, netlog_out, recording, ..
    cline,              \* process_netlog_stream: the line it has read
    snapshot            \* the store as write_netlog_requests found it

stream_vars == <<lock, cpc, hpc, pipe, cd, cline, snapshot>>

vars == <<constants, processing_events, netlog, netlog_requests, start_time,
          file, pc, scenario, out_file, lock, cpc, hpc, pipe, cd, cline,
          snapshot>>

-----------------------------------------------------------------------------
(* Bounds of the model *)

MaxLines == 8       \* lines read from the input in one run
MaxPipeLines == 4   \* lines the browser writes to the pipe in one run
MaxWindows == 2     \* recording windows of one run

-----------------------------------------------------------------------------
(* Python dict and list helpers *)

None == [none |-> TRUE]
EmptyDict == <<>>
Has(d, k) == k \in DOMAIN d
Put(d, k, v) == (k :> v) @@ d
Del(d, k) == [x \in DOMAIN d \ {k} |-> d[x]]
PutIf(c, d, k, v) == IF c THEN Put(d, k, v) ELSE d
Copy(c, d, k, src, sk) == IF c /\ Has(src, sk) THEN Put(d, k, src[sk]) ELSE d
\* if k not in d: d[k] = v
SetDefault(c, d, k, v) == IF c /\ ~ Has(d, k) THEN Put(d, k, v) ELSE d
\* if k not in d and sk in src: d[k] = src[sk]
CopyDefault(c, d, k, src, sk) ==
    IF c /\ ~ Has(d, k) /\ Has(src, sk) THEN Put(d, k, src[sk]) ELSE d
\* if k not in d or t > d[k]: d[k] = t
SetLater(c, d, k, t) == IF c /\ (~ Has(d, k) \/ t > d[k]) THEN Put(d, k, t) ELSE d

EmptyTbl == [ids |-> <<>>, at |-> EmptyDict]
TblHas(t, id) == id \in DOMAIN t.at
TblPut(t, id, e) ==
    [t EXCEPT !.ids = IF TblHas(t, id) THEN t.ids ELSE Append(t.ids, id),
              !.at  = Put(t.at, id, e)]
TblDel(t, id) ==
    [t EXCEPT !.ids = SelectSeq(t.ids, LAMBDA x : x # id),
              !.at  = Del(t.at, id)]

Range(s) == {s[i] : i \in DOMAIN s}
Max(a, b) == IF a >= b THEN a ELSE b
Min(a, b) == IF a <= b THEN a ELSE b

RECURSIVE SumBytes(_)
SumBytes(chunks) ==
    IF chunks = <<>> THEN 0
    ELSE chunks[1].bytes + SumBytes(Tail(chunks))

-----------------------------------------------------------------------------
(* The constants preamble of a NetLog and its inversion *)

EventTypeNames ==
    << "REQUEST_ALIVE", "URL_REQUEST_START_JOB",
       "HTTP_TRANSACTION_SEND_REQUEST",
       "HTTP_TRANSACTION_SEND_REQUEST_HEADERS",
       "HTTP_TRANSACTION_HTTP2_SEND_REQUEST_HEADERS",
       "HTTP_TRANSACTION_QUIC_SEND_REQUEST_HEADERS",
       "HTTP_TRANSACTION_READ_RESPONSE_HEADERS",
       "HTTP_TRANSACTION_READ_EARLY_HINTS_RESPONSE_HEADERS",
       "URL_REQUEST_JOB_BYTES_READ", "URL_REQUEST_JOB_FILTERED_BYTES_READ",
       "URL_REQUEST_REDIRECTED",
       "TCP_CONNECT_ATTEMPT", "SSL_CONNECT", "SOCKET_BYTES_SENT",
       "SOCKET_BYTES_RECEIVED", "SSL_CERTIFICATES_RECEIVED",
       "HTTP_STREAM_REQUEST_STARTED_JOB",
       "TCP_CLIENT_SOCKET_POOL_REQUESTED_SOCKET",
       "SOCKET_POOL_BOUND_TO_SOCKET", "HTTP_STREAM_JOB_BOUND_TO_REQUEST",
       "HTTP2_SESSION_POOL_FOUND_EXISTING_SESSION",
       "HTTP2_SESSION_INITIALIZED", "HTTP2_SESSION_SEND_HEADERS",
       "HTTP2_SESSION_RECV_HEADERS", "HTTP2_SESSION_RECV_DATA",
       "HTTP2_SESSION_RECV_PUSH_PROMISE", "HTTP2_STREAM_ADOPTED_PUSH_STREAM",
       "HTTP2_SESSION_RECV_SETTING",
       "HOST_RESOLVER_IMPL_REQUEST", "HOST_RESOLVER_IMPL_ATTEMPT_STARTED",
       "HOST_RESOLVER_IMPL_ATTEMPT_FINISHED", "HOST_RESOLVER_IMPL_CACHE_HIT",
       "HOST_RESOLVER_IMPL_JOB",
       "TRANSPORT_CONNECT_JOB_CONNECT", "CONNECT_JOB_SET_SOCKET",
       "DISK_CACHE_ENTRY_IMPL", "UDP_CONNECT", "UDP_LOCAL_ADDRESS",
       "UDP_BYTES_SENT", "UDP_BYTES_RECEIVED",
       "QUIC_SESSION_PACKET_SENT", "QUIC_SESSION_VERSION_NEGOTIATED",
       "CERT_VERIFIER_REQUEST",
       "QUIC_CHROMIUM_CLIENT_STREAM_SEND_REQUEST_HEADERS",
       "QUIC_CHROMIUM_CLIENT_STREAM_READ_RESPONSE_HEADERS" >>

SourceTypeNames ==
    << "URL_REQUEST", "SOCKET", "HTTP_STREAM_JOB", "HTTP2_SESSION",
       "HOST_RESOLVER_IMPL_JOB", "TRANSPORT_CONNECT_JOB", "CONNECT_JOB",
       "SSL_CONNECT_JOB", "DISK_CACHE_ENTRY", "UDP_SOCKET", "QUIC_SESSION",
       "NONE" >>

PhaseNames == << "PHASE_NONE", "PHASE_BEGIN", "PHASE_END" >>

\* name -> code, as the producer writes a group of the constants object
CodesOf(names, base) == [n \in Range(names) |->
                            base + (CHOOSE i \in DOMAIN names : names[i] = n)]

\* the object of the {"constants": line; a group is tagged with the Python
\* type of its value (only dict groups are kept by process_constants)
ConstantsJson ==
    [logEventTypes  |-> [t |-> "dict", v |-> CodesOf(EventTypeNames, 0)],
     logSourceType  |-> [t |-> "dict", v |-> CodesOf(SourceTypeNames, 0)],
     logEventPhase  |-> [t |-> "dict", v |-> CodesOf(PhaseNames, -1)],
     activeFieldTrialGroups |-> [t |-> "list", v |-> EmptyDict]]

TypeCode(name) == ConstantsJson.logEventTypes.v[name]
SourceCode(name) == ConstantsJson.logSourceType.v[name]
PhaseCode(name) == ConstantsJson.logEventPhase.v[name]

\* for key in constants[entry]: self.constants[entry][value] = key
InvertDict(d) == [c \in {d[k] : k \in DOMAIN d} |->
                     CHOOSE k \in DOMAIN d : d[k] = c]

process_constants(cs, obj) ==
    [g \in DOMAIN cs \cup {e \in DOMAIN obj : obj[e].t = "dict"} |->
        IF g \in DOMAIN obj /\ obj[g].t = "dict" THEN InvertDict(obj[g].v)
        ELSE cs[g]]

-----------------------------------------------------------------------------
(* Text the code takes apart *)

\* A url is the record of its parts: scheme "://" authority path ["#" frag].
Url(scheme, authority, path) ==
    [scheme |-> scheme, authority |-> authority, path |-> path, frag |-> ""]

\* params['url'].split('#', 1)[0]
StripFragment(u) == [u EXCEPT !.frag = ""]

\* the authorities (host[:port]) that occur in the inputs, and their host part
Authorities ==
    {"a.example", "b.example", "foo.example", "foo.example:443",
     "127.0.0.1", "192.168.10.5"}

\* text.split(':')[0]  /  text[:text.find(':')]
HostPart(authority) ==
    CASE authority = "foo.example:443" -> "foo.example"
      [] authority = "a.example:443"   -> "a.example"
      [] OTHER                         -> authority

\* urlparse(url).hostname
UrlHostname(u) == HostPart(u.authority)

\* url.startswith('http://127.0.0.1') or url.startswith('http://192.168.10.')
IsLocalUrl(u) ==
    u.scheme = "http" /\ u.authority \in {"127.0.0.1", "192.168.10.5"}

\* A socket-pool group name is prefix host [":" port], e.g. ssl/foo.example:443
Group(prefix, host, port) == [prefix |-> prefix, host |-> host, port |-> port]

\* re.match(r'^.*/([^:]+)\:\d+$', group): the host part when the name has a
\* slash before the host and a numeric port after it
GroupMatches(g) == g.prefix # "" /\ g.host # "" /\ g.port # ""

\* group.find('ssl/') >= 0
GroupIsSsl(g) == g.prefix \in {"ssl/", "pm/ssl/"}

\* A header "Name: value" is the record of its two parts.
Header(k, v) == [k |-> k, v |-> v]

\* header[:header.find(':', 1)].strip(': ').lower()
HeaderKey(h) ==
    CASE h.k = ":scheme"    -> "scheme"
      [] h.k = ":authority" -> "authority"
      [] h.k = ":path"      -> "path"
      [] h.k = ":method"    -> "method"
      [] h.k = "Host"       -> "host"
      [] OTHER              -> h.k

\* the last header of the list with that (normalised) key, or None
RECURSIVE LastHeaderValue(_, _, _)
LastHeaderValue(headers, key, found) ==
    IF headers = <<>> THEN found
    ELSE LastHeaderValue(Tail(headers), key,
            IF HeaderKey(headers[1]) = key THEN [v |-> headers[1].v]
            ELSE found)

\* the first header that startswith(':path:'), or None
RECURSIVE PathHeader(_)
PathHeader(headers) ==
    IF headers = <<>> THEN None
    ELSE IF headers[1].k = ":path" THEN [v |-> headers[1]]
    ELSE PathHeader(Tail(headers))

\* re.search(r'^[^\s]+\s([^\s]+)', line): the second word of the request line
RequestLine(method, path) == [method |-> method, path |-> path]

-----------------------------------------------------------------------------
(* Lines of the input and the line framer *)

\* A line is a sequence of tokens; a token is a character the framer strips,
\* or a piece of text the framer looks at as a whole:
\*   CONSTANTS  {"constants":{...}   (the producer leaves the object open)
\*   EVENTS     "events": [
\*   OBJ        one complete JSON object  { ... }   (ev is what it decodes to)
\*   TRUNC      a JSON object cut short   {"phase":1,"sou
\*   CLOSE      ]}
\*   JUNK       any other text that does not begin with {
Tok(k) == [k |-> k, ev |-> EmptyDict]
Obj(ev) == [k |-> "OBJ", ev |-> ev]
StripChars == {",", " ", "\r", "\n"}

RECURSIVE LStrip(_)
LStrip(line) ==
    IF line # <<>> /\ line[1].k \in StripChars THEN LStrip(Tail(line))
    ELSE line

RECURSIVE RStrip(_)
RStrip(line) ==
    IF line # <<>> /\ line[Len(line)].k \in StripChars
    THEN RStrip(SubSeq(line, 1, Len(line) - 1))
    ELSE line

\* line.strip(", \r\n")
Strip(line) == RStrip(LStrip(line))

\* line.startswith('{')
StartsWithBrace(line) ==
    line # <<>> /\ line[1].k \in {"OBJ", "TRUNC", "CONSTANTS"}
\* line.startswith('{"constants":')
StartsWithConstants(line) == line # <<>> /\ line[1].k = "CONSTANTS"
\* line.startswith('"events": [')
StartsWithEvents(line) == line # <<>> /\ line[1].k = "EVENTS"

\* json.loads(line): the decoded object, or None when it raises
JsonLoads(line) ==
    IF Len(line) = 1 /\ line[1].k = "OBJ" THEN [ok |-> line[1].ev] ELSE None
\* json.loads(line + '}') of a constants line
JsonLoadsClosed(line) ==
    IF Len(line) = 1 /\ line[1].k = "CONSTANTS"
    THEN [ok |-> [constants |-> ConstantsJson]]
    ELSE None

ConstantsLine == << Tok("CONSTANTS"), Tok(","), Tok("\n") >>
EventsLine == << Tok("EVENTS"), Tok("\n") >>
CloseLine == << Tok("CLOSE"), Tok("\n") >>
EventLine(ev) == << Obj(ev), Tok(","), Tok("\n") >>
LastEventLine(ev) == << Obj(ev), Tok("\n") >>

-----------------------------------------------------------------------------
(* Events *)

PyInt(n) == [t |-> "int", v |-> n]
\* a text value: its characters are in text; v, the number of an integer
\* value, is 0 for a text (no handler reads the v of a text id, see
\* ProcessNetlogEvent)
PyStr(s) == [t |-> "str", v |-> 0, text |-> s]

\* a decoded event line
Event(name, source, id, phase, time, params) ==
    [type   |-> TypeCode(name),
     source |-> [type |-> SourceCode(source), id |-> PyInt(id)],
     phase  |-> PhaseCode(phase),
     time   |-> time,
     params |-> params]

\* Python ==  between the event's phase and a phase name
PhaseIs(ev, name) == ev.phase.t = "str" /\ ev.phase.v = name

\* NetLog.process_event up to the call of ProcessNetlogEvent: the event with
\* its name, source name, phase and time filled in, or None when a lookup
\* raises (the except clause logs and drops the event)
NormalizeEvent(cs, raw) ==
    IF ~ Has(cs, "logEventTypes") \/ ~ Has(cs.logEventTypes, raw.type)
        THEN None
    ELSE IF ~ Has(cs, "logSourceType")
            \/ ~ Has(cs.logSourceType, raw.source.type)
        THEN None
    ELSE [ok |-> [name   |-> cs.logEventTypes[raw.type],
                  sname  |-> cs.logSourceType[raw.source.type],
                  rawid  |-> raw.source.id,
                  id     |-> raw.source.id.v,
                  phase  |-> [t |-> "list", v |-> <<raw.phase>>],
                  time   |-> raw.time,
                  params |-> raw.params]]

-----------------------------------------------------------------------------
(* Entity handlers: each takes the store and a normalised event and gives  *)
(* the store the handler leaves, also when it leaves by an exception (the  *)
(* caller, ProcessNetlogEvent, logs the exception and goes on).            *)

NextRequestIdBase == 1000000

\* the table of one kind, created on first use
TableOf(nl, kind) == IF Has(nl, kind) THEN nl[kind] ELSE EmptyTbl

Params(ev) == ev.params
HasDependency(ev) ==
    Has(ev.params, "source_dependency") /\ Has(ev.params.source_dependency, "id")
DependencyId(ev) == ev.params.source_dependency.id

\* a counter that grows while its chunk list stays as it is
AddBytesCounterOnly(e, counter, chunks, time, n) ==
    Put(e, counter, e[counter] + n)

\* entry[k] += n; entry[chunks].append({'ts': .., 'bytes': n})
AddBytes(e, counter, chunks, time, n) ==
    Put(Put(e, counter, e[counter] + n),
        chunks, Append(e[chunks], [ts |-> time, bytes |-> n]))
AddBytesIf(c, e, counter, chunks, time, n) ==
    IF c THEN AddBytes(e, counter, chunks, time, n) ELSE e

\* URL_REQUEST_REDIRECTED: re-key the entity under a synthetic id
RedirectRekey(tbl, request_id, new_id, entry) ==
    TblDel(TblPut(tbl, new_id, entry), request_id)

ProcessNetlogUrlRequestEvent(nl, ev) ==
    LET tbl0 == TableOf(nl, "url_request")
        request_id == ev.id
        tbl1 == IF TblHas(tbl0, request_id) THEN tbl0
                ELSE TblPut(tbl0, request_id,
                        [bytes_in |-> 0, chunks |-> <<>>, created |-> ev.time])
        params == Params(ev)
        name == ev.name
        hdr == Has(params, "headers")
        headers == IF hdr THEN params.headers.v ELSE <<>>
        e0 == tbl1.at[request_id]
        e1 == Copy(TRUE, e0, "priority", params, "priority")
        e2 == Copy(TRUE, e1, "method", params, "method")
        e3 == PutIf(Has(params, "url"), e2, "url",
                    IF Has(params, "url") THEN StripFragment(params.url)
                    ELSE None)
        e4 == SetDefault(name = "HTTP_TRANSACTION_SEND_REQUEST",
                         e3, "start", ev.time)
        \* HTTP_TRANSACTION_SEND_REQUEST_HEADERS
        c5 == hdr /\ name = "HTTP_TRANSACTION_SEND_REQUEST_HEADERS"
        e5a == PutIf(c5, e4, "request_headers", headers)
        e5b == Copy(c5, e5a, "line", params, "line")
        e5 == SetDefault(c5, e5b, "start", ev.time)
        \* HTTP_TRANSACTION_HTTP2_SEND_REQUEST_HEADERS (dict or list form)
        c6 == hdr /\ name = "HTTP_TRANSACTION_HTTP2_SEND_REQUEST_HEADERS"
        e6a == PutIf(c6, e5, "request_headers", headers)
        e6b == PutIf(c6, e6a, "protocol", "HTTP/2")
        e6c == Copy(c6, e6b, "line", params, "line")
        e6 == SetDefault(c6, e6c, "start", ev.time)
        \* HTTP_TRANSACTION_QUIC_SEND_REQUEST_HEADERS
        c7 == hdr /\ name = "HTTP_TRANSACTION_QUIC_SEND_REQUEST_HEADERS"
        e7a == PutIf(c7, e6, "request_headers", headers)
        e7b == Copy(c7, e7a, "line", params, "line")
        e7c == PutIf(c7, e7b, "protocol", "QUIC")
        e7 == SetDefault(c7, e7c, "start", ev.time)
        \* HTTP_TRANSACTION_READ_RESPONSE_HEADERS
        c8 == hdr /\ name = "HTTP_TRANSACTION_READ_RESPONSE_HEADERS"
        e8a == PutIf(c8, e7, "response_headers", headers)
        e8b == SetDefault(c8, e8a, "first_byte", ev.time)
        e8 == PutIf(c8, e8b, "end", ev.time)
        \* HTTP_TRANSACTION_READ_EARLY_HINTS_RESPONSE_HEADERS
        c9 == hdr /\ name = "HTTP_TRANSACTION_READ_EARLY_HINTS_RESPONSE_HEADERS"
        e9a == PutIf(c9, e8, "early_hints_headers", headers)
        e9 == PutIf(c9, e9a, "end", ev.time)
        bc == Has(params, "byte_count")
        n == IF bc THEN params.byte_count ELSE 0
        \* URL_REQUEST_JOB_BYTES_READ
        BytesRead(e) ==
            IF bc /\ name = "URL_REQUEST_JOB_BYTES_READ"
            THEN Put(Put(AddBytes(e, "bytes_in", "chunks", ev.time, n),
                         "has_raw_bytes", TRUE), "end", ev.time)
            ELSE e
        \* URL_REQUEST_JOB_FILTERED_BYTES_READ
        FilteredBytesRead(e) ==
            IF bc /\ name = "URL_REQUEST_JOB_FILTERED_BYTES_READ"
            THEN LET ea == Put(Put(e, "end", ev.time), "uncompressed_bytes_in",
                               (IF Has(e, "uncompressed_bytes_in")
                                THEN e.uncompressed_bytes_in ELSE 0) + n)
                 IN  IF ~ Has(e, "has_raw_bytes") \/ ~ e.has_raw_bytes
                     THEN AddBytes(ea, "bytes_in", "chunks", ev.time, n)
                     ELSE ea
            ELSE e
        e11 == FilteredBytesRead(BytesRead(e9))
        e12 == Copy(TRUE, e11, "stream_id", params, "stream_id")
        new_id == nl.next_request_id
        \* URL_REQUEST_REDIRECTED re-keys what the event left
        Store(e) ==
            IF name = "URL_REQUEST_REDIRECTED"
            THEN Put(Put(nl, "next_request_id", new_id + 1), "url_request",
                     RedirectRekey(TblPut(tbl1, request_id, e), request_id,
                                   new_id, e))
            ELSE Put(nl, "url_request", TblPut(tbl1, request_id, e))
    IN  Store(e12)

ProcessNetlogDiskCacheEvent(nl, ev) ==
    IF Has(ev.params, "key")
    THEN LET url == ev.params.key
             urls == TableOf(nl, "urls")
         IN  Put(nl, "urls",
                 IF TblHas(urls, url) THEN urls
                 ELSE TblPut(urls, url, [start |-> ev.time]))
    ELSE nl

\* the record a socket entity starts as (TCP and UDP share the table)
NewSocket == [bytes_out |-> 0, bytes_in |-> 0, chunks_out |-> <<>>,
              chunks_in |-> <<>>]

ProcessNetlogSocketEvent(nl, ev) ==
    LET tbl0 == TableOf(nl, "socket")
        request_id == ev.id
        tbl1 == IF TblHas(tbl0, request_id) THEN tbl0
                ELSE TblPut(tbl0, request_id, NewSocket)
        params == Params(ev)
        name == ev.name
        bc == Has(params, "byte_count")
        n == IF bc THEN params.byte_count ELSE 0
        e0 == tbl1.at[request_id]
        e1 == Copy(TRUE, e0, "address", params, "address")
        e2 == Copy(TRUE, e1, "source_address", params, "source_address")
        e3 == SetDefault(name = "TCP_CONNECT_ATTEMPT" /\ PhaseIs(ev, "PHASE_BEGIN"),
                         e2, "connect_start", ev.time)
        e4 == PutIf(name = "TCP_CONNECT_ATTEMPT" /\ PhaseIs(ev, "PHASE_END"),
                    e3, "connect_end", ev.time)
        ssl == name = "SSL_CONNECT"
        e5a == SetDefault(ssl, e4, "connect_end", ev.time)
        e5b == SetDefault(ssl /\ PhaseIs(ev, "PHASE_BEGIN"),
                          e5a, "ssl_start", ev.time)
        e5c == PutIf(ssl /\ PhaseIs(ev, "PHASE_END"), e5b, "ssl_end", ev.time)
        e5d == Copy(ssl, e5c, "tls_version", params, "version")
        e5e == Copy(ssl, e5d, "tls_resumed", params, "is_resumed")
        e5f == Copy(ssl, e5e, "tls_next_proto", params, "next_proto")
        e5 == Copy(ssl, e5f, "tls_cipher_suite", params, "cipher_suite")
        sent == name = "SOCKET_BYTES_SENT" /\ bc
        e6a == SetDefault(sent, e5, "connect_end", ev.time)
        e6 == AddBytesIf(sent, e6a, "bytes_out", "chunks_out", ev.time, n)
        e7 == AddBytesIf(name = "SOCKET_BYTES_RECEIVED" /\ bc,
                         e6, "bytes_in", "chunks_in", ev.time, n)
        Certificates(e) ==
            IF name = "SSL_CERTIFICATES_RECEIVED" /\ Has(params, "certificates")
            THEN Put(e, "certificates",
                     (IF Has(e, "certificates") THEN e.certificates ELSE <<>>)
                         \o params.certificates)
            ELSE e
    IN  Put(nl, "socket", TblPut(tbl1, request_id, Certificates(e7)))

ProcessNetlogUdpSocketEvent(nl, ev) ==
    LET tbl0 == TableOf(nl, "socket")
        request_id == ev.id
        tbl1 == IF TblHas(tbl0, request_id) THEN tbl0
                ELSE TblPut(tbl0, request_id, NewSocket)
        params == Params(ev)
        name == ev.name
        bc == Has(params, "byte_count")
        n == IF bc THEN params.byte_count ELSE 0
        e0 == tbl1.at[request_id]
        e1 == Copy(name = "UDP_CONNECT", e0, "address", params, "address")
        e2 == Copy(name = "UDP_LOCAL_ADDRESS", e1, "source_address",
                   params, "address")
        e3 == SetDefault(name = "UDP_CONNECT" /\ PhaseIs(ev, "PHASE_BEGIN"),
                         e2, "connect_start", ev.time)
        e4 == PutIf(name = "UDP_CONNECT" /\ PhaseIs(ev, "PHASE_END"),
                    e3, "connect_end", ev.time)
        e5 == AddBytesIf(name = "UDP_BYTES_SENT" /\ bc,
                         e4, "bytes_out", "chunks_out", ev.time, n)
        e6 == AddBytesIf(name = "UDP_BYTES_RECEIVED" /\ bc,
                         e5, "bytes_in", "chunks_in", ev.time, n)
    IN  Put(nl, "socket", TblPut(tbl1, request_id, e6))

ProcessNetlogConnectJobEvent(nl, ev) ==
    LET tbl0 == TableOf(nl, "connect_job")
        request_id == ev.id
        tbl1 == IF TblHas(tbl0, request_id) THEN tbl0
                ELSE TblPut(tbl0, request_id, [created |-> ev.time])
        params == Params(ev)
        name == ev.name
        e0 == tbl1.at[request_id]
        e1 == PutIf(name = "TRANSPORT_CONNECT_JOB_CONNECT"
                        /\ PhaseIs(ev, "PHASE_BEGIN"), e0, "connect_start", ev.time)
        e2 == PutIf(name = "TRANSPORT_CONNECT_JOB_CONNECT"
                        /\ PhaseIs(ev, "PHASE_END"), e1, "connect_end", ev.time)
        set == HasDependency(ev) /\ name = "CONNECT_JOB_SET_SOCKET"
        socket_id == IF set THEN DependencyId(ev) ELSE 0
        e3 == PutIf(set, e2, "socket", socket_id)
        sockets == TableOf(nl, "socket")
        link == set /\ Has(nl, "socket") /\ TblHas(sockets, socket_id)
        s0 == IF link THEN sockets.at[socket_id] ELSE EmptyDict
        s1 == Copy(link, s0, "group", e3, "group")
        s2 == Copy(link, s1, "dns", e3, "dns")
        e4 == Copy(TRUE, e3, "group", params, "group_name")
        e5 == Copy(TRUE, e4, "group", params, "group_id")
        nl1 == Put(nl, "connect_job", TblPut(tbl1, request_id, e5))
    IN  IF link THEN Put(nl1, "socket", TblPut(sockets, socket_id, s2)) ELSE nl1

H2PoolEvents ==
    {"HTTP2_SESSION_POOL_IMPORTED_SESSION_FROM_SOCKET",
     "HTTP2_SESSION_POOL_FOUND_EXISTING_SESSION",
     "HTTP2_SESSION_POOL_FOUND_EXISTING_SESSION_FROM_IP_POOL"}

ProcessNetlogStreamJobEvent(nl, ev) ==
    LET tbl0 == TableOf(nl, "stream_job")
        request_id == ev.id
        tbl1 == IF TblHas(tbl0, request_id) THEN tbl0
                ELSE TblPut(tbl0, request_id, [created |-> ev.time])
        params == Params(ev)
        name == ev.name
        dep == HasDependency(ev)
        dep_id == IF dep THEN DependencyId(ev) ELSE 0
        e0 == tbl1.at[request_id]
        e1 == Copy(TRUE, e0, "group", params, "group_name")
        e2 == Copy(TRUE, e1, "group", params, "group_id")
        e3 == PutIf(name = "HTTP_STREAM_REQUEST_STARTED_JOB", e2, "start", ev.time)
        e4 == PutIf(name = "TCP_CLIENT_SOCKET_POOL_REQUESTED_SOCKET",
                    e3, "socket_start", ev.time)
        Store(e) == Put(nl, "stream_job", TblPut(tbl1, request_id, e))
    IN  IF dep /\ name = "SOCKET_POOL_BOUND_TO_SOCKET" THEN
            \* with 'url_request' in entry, entry['urlrequest'] raises KeyError;
            \* otherwise the condition is false: either way nothing more is done
            Store(Put(Put(e4, "socket_end", ev.time), "socket", dep_id))
        ELSE IF dep /\ name = "HTTP_STREAM_JOB_BOUND_TO_REQUEST" THEN
            LET e5 == Put(e4, "url_request", dep_id)
                e6 == PutIf(~ Has(e5, "socket_end"), e5, "socket_end", ev.time)
                nl1 == Store(e6)
            IN  IF ~ Has(nl, "url_request") THEN nl1  \* KeyError 'url_request'
                ELSE IF ~ TblHas(nl.url_request, dep_id) THEN nl1
                ELSE LET r0 == nl.url_request.at[dep_id]
                         r1 == Copy(TRUE, r0, "group", e6, "group")
                         r2 == Copy(TRUE, r1, "socket", e6, "socket")
                         r3 == Copy(TRUE, r2, "h2_session", e6, "h2_session")
                     IN  Put(nl1, "url_request",
                             TblPut(nl.url_request, dep_id, r3))
        ELSE IF dep /\ name \in H2PoolEvents THEN
            LET e5 == Put(e4, "h2_session", dep_id)
                e6 == PutIf(~ Has(e5, "socket_end"), e5, "socket_end", ev.time)
            IN  IF ~ Has(nl, "h2_session") THEN Store(e6)  \* KeyError 'h2_session'
                ELSE IF TblHas(nl.h2_session, dep_id)
                        /\ Has(nl.h2_session.at[dep_id], "socket")
                THEN Store(Put(e6, "socket", nl.h2_session.at[dep_id].socket))
                ELSE Store(e6)
                \* then, with 'url_request' in entry, KeyError 'urlrequest'
        ELSE Store(e4)

ProcessNetlogDnsEvent(nl, ev) ==
    LET tbl0 == TableOf(nl, "dns")
        request_id == ev.id
        tbl1 == IF TblHas(tbl0, request_id) THEN tbl0
                ELSE TblPut(tbl0, request_id, EmptyDict)
        params == Params(ev)
        name == ev.name
        e0 == tbl1.at[request_id]
        link == HasDependency(ev) /\ Has(nl, "connect_job")
                    /\ TblHas(nl.connect_job, DependencyId(ev))
        nl1 == IF link
               THEN Put(nl, "connect_job",
                        TblPut(nl.connect_job, DependencyId(ev),
                               Put(nl.connect_job.at[DependencyId(ev)],
                                   "dns", request_id)))
               ELSE nl
        Store(e) == Put(nl1, "dns", TblPut(tbl1, request_id, e))
        req == name = "HOST_RESOLVER_IMPL_REQUEST"
        \* a second PHASE_BEGIN reads entry['source']: KeyError
        raises == req /\ PhaseIs(ev, "PHASE_BEGIN") /\ Has(e0, "start")
        e1 == PutIf(req /\ PhaseIs(ev, "PHASE_BEGIN") /\ ~ Has(e0, "start"),
                    e0, "start", ev.time)
        e2 == SetLater(req /\ PhaseIs(ev, "PHASE_END"), e1, "end", ev.time)
        e3 == SetDefault(name = "HOST_RESOLVER_IMPL_ATTEMPT_STARTED",
                         e2, "start", ev.time)
        e4 == PutIf(name = "HOST_RESOLVER_IMPL_ATTEMPT_FINISHED",
                    e3, "end", ev.time)
        e5 == SetLater(name = "HOST_RESOLVER_IMPL_CACHE_HIT", e4, "end", ev.time)
        e6 == CopyDefault(TRUE, e5, "host", params, "host")
        e7 == Copy(TRUE, e6, "address_list", params, "address_list")
    IN  IF raises THEN Store(e0) ELSE Store(e7)

\* the first URL request, in table order, that ADOPTED_PUSH_STREAM marks:
\* 'url' in request and url == request['url'] and 'start' not in request
\* a search that never finds the placeholder
NoPlaceholder(ids, at, url) == None

RECURSIVE FirstPlaceholder(_, _, _)
FirstPlaceholder(ids, at, url) ==
    IF ids = <<>> THEN None
    ELSE IF Has(at[ids[1]], "url") /\ at[ids[1]].url = url
            /\ ~ Has(at[ids[1]], "start")
         THEN [id |-> ids[1]]
         ELSE FirstPlaceholder(Tail(ids), at, url)

\* for header in headers: re.search(r'<key>: (.+)', header): the last match
RECURSIVE PseudoHeader(_, _, _)
PseudoHeader(headers, key, found) ==
    IF headers = <<>> THEN found
    ELSE PseudoHeader(Tail(headers), key,
            IF headers[1].k = key /\ headers[1].v # "" THEN [v |-> headers[1].v]
            ELSE found)

NewStream == [bytes_in |-> 0, chunks |-> <<>>]

ProcessNetlogHttp2SessionEvent(nl, ev) ==
    LET tbl0 == TableOf(nl, "h2_session")
        session_id == ev.id
        tbl1 == IF TblHas(tbl0, session_id) THEN tbl0
                ELSE TblPut(tbl0, session_id, [stream |-> EmptyDict])
        params == Params(ev)
        name == ev.name
        time == ev.time
        hdr == Has(params, "headers")
        headers == IF hdr THEN params.headers.v ELSE <<>>
        \* HTTP2_SESSION_INITIALIZED
        init == HasDependency(ev) /\ name = "HTTP2_SESSION_INITIALIZED"
        socket_id == IF init THEN DependencyId(ev) ELSE 0
        nl1 == IF init /\ Has(nl, "socket") /\ TblHas(nl.socket, socket_id)
               \* self.netlog['socket']['h2_session'] = session_id
               THEN Put(nl, "socket", Put(nl.socket, "h2_session", session_id))
               ELSE nl
        entry0 == tbl1.at[session_id]
        entry1 == PutIf(init, entry0, "socket", socket_id)
        entry2 == CopyDefault(TRUE, entry1, "host", params, "host")
        entry3 == CopyDefault(TRUE, entry2, "protocol", params, "protocol")
        \* events that name a stream
        sid == Has(params, "stream_id")
        stream_id == IF sid THEN params.stream_id ELSE 0
        url == IF Has(params, "url") THEN StripFragment(params.url) ELSE None
        \* the stream the event names, with what the event says of it
        Named(entry) ==
            LET st0 == IF sid /\ Has(entry.stream, stream_id)
                       THEN entry.stream[stream_id] ELSE NewStream
                st1 == Copy(TRUE, st0, "exclusive", params, "exclusive")
                st2 == Copy(TRUE, st1, "parent_stream_id",
                            params, "parent_stream_id")
                st3 == Copy(TRUE, st2, "weight", params, "weight")
            IN  PutIf(Has(params, "url"), st3, "url", url)
        \* the url goes to the URL request of the stream
        SetUrl(n, st) ==
            IF sid /\ Has(params, "url") /\ Has(st, "url_request")
                /\ Has(n, "url_request") /\ TblHas(n.url_request, st.url_request)
            THEN Put(n, "url_request",
                     TblPut(n.url_request, st.url_request,
                            Put(n.url_request.at[st.url_request], "url", url)))
            ELSE n
        data == name = "HTTP2_SESSION_RECV_DATA" /\ Has(params, "size")
        send == name = "HTTP2_SESSION_SEND_HEADERS"
        recv == name = "HTTP2_SESSION_RECV_HEADERS"
        Timed(st4) ==
            LET st5a == PutIf(data, st4, "end", time)
                st5b == SetDefault(data, st5a, "first_byte", time)
                st5 == AddBytesIf(data, st5b, "bytes_in", "chunks", time,
                                  IF data THEN params.size ELSE 0)
                st6a == SetDefault(send, st5, "start", time)
                st6 == PutIf(send /\ hdr, st6a, "request_headers", headers)
                st7a == SetDefault(recv, st6, "first_byte", time)
                st7b == PutIf(recv, st7a, "end", time)
            IN  PutIf(recv /\ hdr, st7b, "response_headers", headers)
        \* HTTP2_STREAM_ADOPTED_PUSH_STREAM
        Adopted(n) ==
            LET adopt == sid /\ name = "HTTP2_STREAM_ADOPTED_PUSH_STREAM"
                            /\ Has(params, "url") /\ Has(n, "url_request")
                found == IF adopt
                         THEN FirstPlaceholder(n.url_request.ids,
                                               n.url_request.at, url)
                         ELSE None
            IN  IF adopt /\ found # None
                THEN Put(n, "url_request",
                         TblPut(n.url_request, found.id,
                                Put(n.url_request.at[found.id], "phantom", TRUE)))
                ELSE n
        PutStream(entry, st) ==
            IF sid THEN Put(entry, "stream", Put(entry.stream, stream_id, st))
            ELSE entry
        \* HTTP2_SESSION_RECV_PUSH_PROMISE: a fake request to match the push
        push == name = "HTTP2_SESSION_RECV_PUSH_PROMISE"
                    /\ Has(params, "promised_stream_id")
        request_id == nl.next_request_id
        pid == IF push THEN params.promised_stream_id ELSE 0
        scheme == PseudoHeader(headers, ":scheme", None)
        authority == PseudoHeader(headers, ":authority", None)
        path == PseudoHeader(headers, ":path", None)
        synth == hdr /\ scheme # None /\ authority # None /\ path # None
        purl == IF synth THEN Url(scheme.v, authority.v, path.v) ELSE None
        Promised(entry) ==
            LET pst0 == IF Has(entry.stream, pid) THEN entry.stream[pid]
                        ELSE NewStream
                pst1 == PutIf(hdr, pst0, "request_headers", headers)
                pst2 == PutIf(synth, pst1, "url", purl)
                pst3 == Put(Put(pst2, "pushed", TRUE), "url_request", request_id)
            IN  IF push
                THEN Put(entry, "stream", Put(entry.stream, pid, pst3))
                ELSE entry
        PushRequest(n, entry) ==
            LET req0 == [bytes_in |-> 0, chunks |-> <<>>, created |-> time]
                req1 == PutIf(synth, req0, "url", purl)
                req2 == Put(Put(Put(Put(Put(req1, "protocol", "HTTP/2"),
                            "h2_session", session_id), "stream_id", pid),
                            "start", time), "pushed", TRUE)
                req3 == Copy(TRUE, req2, "socket", entry, "socket")
            IN  IF push
                THEN Put(Put(n, "next_request_id", request_id + 1),
                         "url_request",
                         TblPut(TableOf(n, "url_request"), request_id, req3))
                ELSE n
        \* HTTP2_SESSION_RECV_SETTING: id is "<number> (<name>)"
        Setting(entry) ==
            IF name = "HTTP2_SESSION_RECV_SETTING" /\ Has(params, "id")
                /\ Has(params, "value") /\ params.id.name # ""
            THEN Put(entry, "server_settings",
                     Put(IF Has(entry, "server_settings")
                         THEN entry.server_settings ELSE EmptyDict,
                         params.id.name, params.value))
            ELSE entry
        \* the store and the session as the stream part leaves them
        Pushed(n, entry4) ==
            Put(PushRequest(n, entry4), "h2_session",
                TblPut(tbl1, session_id, Setting(Promised(entry4))))
        Streamed(entry, st4) ==
            Pushed(Adopted(SetUrl(nl1, st4)), PutStream(entry, Timed(st4)))
        Session(entry) == Streamed(entry, Named(entry))
    IN  Session(entry3)

ProcessNetlogQuicSessionEvent(nl, ev) ==
    LET tbl0 == TableOf(nl, "quic_session")
        session_id == ev.id
        tbl1 == IF TblHas(tbl0, session_id) THEN tbl0
                ELSE TblPut(tbl0, session_id, [stream |-> EmptyDict])
        params == Params(ev)
        name == ev.name
        time == ev.time
        hdr == Has(params, "headers")
        headers == IF hdr THEN params.headers.v ELSE <<>>
        e0 == tbl1.at[session_id]
        e1 == CopyDefault(TRUE, e0, "host", params, "host")
        e2 == CopyDefault(TRUE, e1, "port", params, "port")
        e3 == CopyDefault(TRUE, e2, "version", params, "version")
        e4 == CopyDefault(TRUE, e3, "peer_address", params, "peer_address")
        e5 == CopyDefault(TRUE, e4, "self_address", params, "self_address")
        e6 == SetDefault(name = "QUIC_SESSION_PACKET_SENT",
                         e5, "connect_start", time)
        e7 == SetDefault(name = "QUIC_SESSION_VERSION_NEGOTIATED",
                         e6, "connect_end", time)
        \* CERT_VERIFIER_REQUEST
        CertVerifier(e) ==
            IF name = "CERT_VERIFIER_REQUEST" /\ Has(e, "connect_end")
            THEN SetDefault(TRUE, SetDefault(TRUE, e, "tls_start", e.connect_end),
                            "tls_end", time)
            ELSE e
        sid == Has(params, "quic_stream_id")
        stream_id == IF sid THEN params.quic_stream_id ELSE 0
        send == name = "QUIC_CHROMIUM_CLIENT_STREAM_SEND_REQUEST_HEADERS"
        recv == name = "QUIC_CHROMIUM_CLIENT_STREAM_READ_RESPONSE_HEADERS"
        Stream(st0) ==
            LET st1 == SetDefault(send, st0, "start", time)
                st2 == PutIf(send /\ hdr, st1, "request_headers", headers)
                st3 == SetDefault(recv, st2, "first_byte", time)
                st4 == PutIf(recv, st3, "end", time)
            IN  PutIf(recv /\ hdr, st4, "response_headers", headers)
        Streams(e) ==
            IF sid
            THEN Put(e, "stream",
                     Put(e.stream, stream_id,
                         Stream(IF Has(e.stream, stream_id)
                                THEN e.stream[stream_id] ELSE NewStream)))
            ELSE e
    IN  Put(nl, "quic_session",
            TblPut(tbl1, session_id, Streams(CertVerifier(e7))))

-----------------------------------------------------------------------------
(* The dispatcher *)

ConnectJobSources == {"CONNECT_JOB", "SSL_CONNECT_JOB", "TRANSPORT_CONNECT_JOB"}

\* a prefix test that no name passes
HostResolverNever(name) == FALSE

\* event['name'].startswith('HOST_RESOLVER')
IsHostResolverName(name) ==
    name \in {"HOST_RESOLVER_IMPL_REQUEST", "HOST_RESOLVER_IMPL_ATTEMPT_STARTED",
              "HOST_RESOLVER_IMPL_ATTEMPT_FINISHED",
              "HOST_RESOLVER_IMPL_CACHE_HIT", "HOST_RESOLVER_IMPL_JOB"}

\* NetLog.ProcessNetlogEvent: a textual id makes event['id'] raise KeyError
\* before any handler runs, and the event is dropped
ProcessNetlogEvent(nl, ev) ==
    IF ev.rawid.t = "str" THEN nl
    ELSE IF ev.sname = "HOST_RESOLVER_IMPL_JOB" \/ IsHostResolverName(ev.name)
        THEN ProcessNetlogDnsEvent(nl, ev)
    ELSE IF ev.sname \in ConnectJobSources
        THEN ProcessNetlogConnectJobEvent(nl, ev)
    ELSE IF ev.sname = "HTTP_STREAM_JOB" THEN ProcessNetlogStreamJobEvent(nl, ev)
    ELSE IF ev.sname = "HTTP2_SESSION" THEN ProcessNetlogHttp2SessionEvent(nl, ev)
    ELSE IF ev.sname = "QUIC_SESSION" THEN ProcessNetlogQuicSessionEvent(nl, ev)
    ELSE IF ev.sname = "SOCKET" THEN ProcessNetlogSocketEvent(nl, ev)
    ELSE IF ev.sname = "UDP_SOCKET" THEN ProcessNetlogUdpSocketEvent(nl, ev)
    ELSE IF ev.sname = "URL_REQUEST" THEN ProcessNetlogUrlRequestEvent(nl, ev)
    ELSE IF ev.sname = "DISK_CACHE_ENTRY" THEN ProcessNetlogDiskCacheEvent(nl, ev)
    ELSE nl

\* NetLog.process_event
process_event(cs, nl, raw) ==
    LET ev == NormalizeEvent(cs, raw)
    IN  IF ev = None THEN nl ELSE ProcessNetlogEvent(nl, ev.ok)

-----------------------------------------------------------------------------
(* NetLog.post_process_netlog_events                                       *)
(*                                                                         *)
(* The function works on a state st = [nl, reqs, known, last_time, raised]:*)
(* the store (requests are mutated in place), the list of requests to emit *)
(* (each with the id of the entity it is, 0 for a synthesized one), the    *)
(* known hosts, and the exception it left by, if any ("" for none).        *)

KnownHosts ==
    {"cache.pack.google.com", "clients1.google.com", "redirector.gvt1.com"}

TickUs == 1000      \* producer times are microseconds; the inputs tick in ms

\* float(t - start_time) / 1000.0, on times that are whole milliseconds
ToMs(t, start) == (t - start) \div 1000

TimeNames == << "dns_start", "dns_end", "connect_start", "connect_end",
                "ssl_start", "ssl_end", "start", "created", "first_byte",
                "end" >>

\* the last header whose key is host or authority
RECURSIVE LastOrigin(_, _)
LastOrigin(headers, found) ==
    IF headers = <<>> THEN found
    ELSE LastOrigin(Tail(headers),
            IF HeaderKey(headers[1]) \in {"host", "authority"}
            THEN [v |-> headers[1].v] ELSE found)

\* build a URL from the request headers if one wasn't explicitly provided
SynthesizeUrl(nl, request) ==
    LET headers == request.request_headers
        path0 == IF Has(request, "line") THEN [v |-> request.line.path] ELSE None
        scheme0 ==
            IF Has(request, "group")
            THEN [v |-> IF GroupIsSsl(request.group) THEN "https" ELSE "http"]
            ELSE IF Has(request, "socket") /\ Has(nl, "socket")
                    /\ TblHas(nl.socket, request.socket)
            THEN LET socket == nl.socket.at[request.socket]
                 IN  [v |-> IF Has(socket, "certificates")
                               \/ Has(socket, "ssl_start")
                            THEN "https" ELSE "http"]
            ELSE None
        scheme == LastHeaderValue(headers, "scheme", scheme0)
        origin == LastOrigin(headers, None)
        path == LastHeaderValue(headers, "path", path0)
    IN  IF scheme # None /\ origin # None /\ path # None
           /\ scheme.v # "" /\ origin.v # "" /\ path.v # ""
        THEN Put(request, "url", Url(scheme.v, origin.v, path.v))
        ELSE request

\* Match orphaned request streams with their h2 sessions: the first session,
\* in table order, with the request's host and a stream of the request's
\* stream_id whose :path header equals the request's
RECURSIVE OrphanSession(_, _, _, _)
OrphanSession(ids, at, request, request_host) ==
    IF ids = <<>> THEN None
    ELSE LET h2_session == at[ids[1]]
             sidd == request.stream_id
             ok == Has(h2_session, "host")
                   /\ Has(h2_session, "stream")
                   /\ Has(h2_session.stream, sidd)
                   /\ HostPart(h2_session.host) = request_host
                   /\ Has(request, "request_headers")
                   /\ Has(h2_session.stream[sidd], "request_headers")
                   /\ PathHeader(request.request_headers) # None
                   /\ PathHeader(request.request_headers)
                        = PathHeader(h2_session.stream[sidd].request_headers)
         IN  IF ok THEN [id |-> ids[1]]
             ELSE OrphanSession(Tail(ids), at, request, request_host)

\* weight-derived priority bucket
WeightPriority(weight) ==
    IF weight >= 256 THEN "HIGHEST"
    ELSE IF weight >= 220 THEN "MEDIUM"
    ELSE IF weight >= 183 THEN "LOW"
    ELSE IF weight >= 147 THEN "LOWEST"
    ELSE "IDLE"

\* Copy any http/2 info over
H2Backfill(nl, request) ==
    IF ~ (Has(nl, "h2_session") /\ Has(request, "h2_session")
            /\ TblHas(nl.h2_session, request.h2_session))
    THEN request
    ELSE
    LET h2_session == nl.h2_session.at[request.h2_session]
        Bytes(r, stream) ==
            IF stream.bytes_in > r.bytes_in
            THEN Put(Put(r, "bytes_in", stream.bytes_in), "chunks", stream.chunks)
            ELSE r
        FromStream(r1, stream) ==
            LET r2 == Copy(TRUE, r1, "request_headers", stream, "request_headers")
                r3 == Copy(TRUE, r2, "response_headers",
                           stream, "response_headers")
                r4 == PutIf(Has(stream, "exclusive"), r3, "exclusive",
                            IF Has(stream, "exclusive") /\ stream.exclusive
                            THEN 1 ELSE 0)
                r5 == Copy(TRUE, r4, "parent_stream_id",
                           stream, "parent_stream_id")
                r6 == Copy(TRUE, r5, "weight", stream, "weight")
                r7 == SetDefault(Has(stream, "weight"), r6, "priority",
                                 IF Has(stream, "weight")
                                 THEN WeightPriority(stream.weight) ELSE "IDLE")
                r8 == CopyDefault(TRUE, r7, "first_byte", stream, "first_byte")
                r9 == CopyDefault(TRUE, r8, "end", stream, "end")
            IN  Bytes(r9, stream)
        WithSocket(r1) ==
            IF Has(r1, "stream_id") /\ Has(h2_session, "stream")
                /\ Has(h2_session.stream, r1.stream_id)
            THEN FromStream(r1, h2_session.stream[r1.stream_id])
            ELSE r1
    IN  WithSocket(CopyDefault(TRUE, request, "socket", h2_session, "socket"))

\* a mark that is set whatever the request logged
FromNetAlways(request) == TRUE

\* request['fromNet'] = bool('start' in request)
FromNet(request) == Has(request, "start")

\* a filter that lets every request through
SurvivesAlways(request) == TRUE

\* if 'phantom' not in request and 'request_headers' in request
Survives(request) == ~ Has(request, "phantom") /\ Has(request, "request_headers")

\* one iteration of  for request_id in self.netlog['url_request']
PostProcessRequest(st, request_id) ==
    IF st.raised # "" THEN st ELSE
    LET nl == st.nl
        r0 == nl.url_request.at[request_id]
        r1 == Put(r0, "fromNet", FromNet(r0))
        t1 == IF Has(r0, "start") /\ r0.start > st.last_time
              THEN r0.start ELSE st.last_time
        t2 == IF Has(r0, "end") /\ r0["end"] > t1 THEN r0["end"] ELSE t1
        Stored(r) == Put(nl, "url_request", TblPut(nl.url_request, request_id, r))
        \* the request with its url, if it has one
        WithUrl(r2) ==
            LET kept == Has(r2, "url") /\ ~ IsLocalUrl(r2.url)
                request_host == IF kept THEN UrlHostname(r2.url) ELSE ""
                orphan == kept /\ Has(r2, "stream_id") /\ ~ Has(r2, "h2_session")
                found == IF orphan /\ Has(nl, "h2_session")
                         THEN OrphanSession(nl.h2_session.ids, nl.h2_session.at,
                                            r2, request_host)
                         ELSE None
                r3 == PutIf(found # None, r2, "h2_session",
                            IF found # None THEN found.id ELSE 0)
                Kept(r4) ==
                    [st EXCEPT
                        !.nl = Stored(r4), !.last_time = t2,
                        !.known = IF kept THEN @ \cup {request_host} ELSE @,
                        !.reqs = IF kept /\ Survives(r4)
                                 THEN Append(@, [id |-> request_id, r |-> r4])
                                 ELSE @]
            IN  IF orphan /\ ~ Has(nl, "h2_session")
                THEN \* for h2_session_id in self.netlog['h2_session']: KeyError
                     [st EXCEPT !.nl = Stored(r2), !.last_time = t2,
                                !.known = IF kept THEN @ \cup {request_host}
                                          ELSE @,
                                !.raised = "KeyError: 'h2_session'"]
                ELSE Kept(IF kept THEN H2Backfill(nl, r3) ELSE r3)
    IN  WithUrl(IF ~ Has(r0, "url") /\ Has(r0, "request_headers")
                THEN SynthesizeUrl(nl, r1) ELSE r1)

RECURSIVE PostProcessRequests(_, _)
PostProcessRequests(st, ids) ==
    IF ids = <<>> THEN st
    ELSE PostProcessRequests(PostProcessRequest(st, ids[1]), Tail(ids))

\* the stream jobs whose socket never attached, by host: the first per host
RECURSIVE FailedHosts(_, _, _, _, _)
FailedHosts(ids, at, known, last_time, failed) ==
    IF ids = <<>> THEN failed
    ELSE LET stream_job == at[ids[1]]
             hit == Has(stream_job, "group") /\ Has(stream_job, "socket_start")
                    /\ ~ Has(stream_job, "socket")
                    /\ GroupMatches(stream_job.group)
                    /\ stream_job.group.host \notin known
                    /\ ~ Has(failed, stream_job.group.host)
             entry == [start |-> stream_job.socket_start,
                       end   |-> IF Has(stream_job, "socket_end")
                                 THEN stream_job.socket_end
                                 ELSE Max(stream_job.socket_start, last_time)]
         IN  FailedHosts(Tail(ids), at, known, last_time,
                         IF hit THEN Put(failed, stream_job.group.host, entry)
                         ELSE failed)

\* the request synthesized for a url of a failed host
FailedRequest(url, window) ==
    [url |-> url, created |-> window.start, start |-> window.start,
     end |-> window["end"], connect_start |-> window.start,
     connect_end |-> window["end"], fromNet |-> TRUE, status |-> 12029]

RECURSIVE FailedRequests(_, _)
FailedRequests(urls, failed) ==
    IF urls = <<>> THEN <<>>
    ELSE (IF Has(failed, UrlHostname(urls[1]))
          THEN << [id |-> 0,
                   r |-> FailedRequest(urls[1], failed[UrlHostname(urls[1])])] >>
          ELSE <<>>)
         \o FailedRequests(Tail(urls), failed)

\* See if there were any connections for hosts that we didn't know about
SynthesizeFailedHosts(st) ==
    IF st.raised # "" \/ ~ Has(st.nl, "urls") THEN st
    ELSE LET failed == IF Has(st.nl, "stream_job")
                       THEN FailedHosts(st.nl.stream_job.ids, st.nl.stream_job.at,
                                        st.known, st.last_time, EmptyDict)
                       ELSE EmptyDict
         IN  [st EXCEPT !.reqs = @ \o FailedRequests(st.nl.urls.ids, failed)]

\* requests.sort(key=lambda x: x['start'] if 'start' in x else x['created'])
SortKey(x) == IF Has(x.r, "start") THEN x.r.start ELSE x.r.created

\* insert x after every element whose key is not greater (the sort is stable)
RECURSIVE InsertSorted(_, _)
InsertSorted(sorted, x) ==
    IF sorted = <<>> THEN << x >>
    ELSE IF SortKey(sorted[Len(sorted)]) <= SortKey(x) THEN Append(sorted, x)
    ELSE Append(InsertSorted(SubSeq(sorted, 1, Len(sorted) - 1), x),
                sorted[Len(sorted)])

\* a sort that leaves the requests as they come
SortRequestsNone(reqs) == reqs

RECURSIVE SortRequests(_)
SortRequests(reqs) ==
    IF reqs = <<>> THEN <<>>
    ELSE InsertSorted(SortRequests(SubSeq(reqs, 1, Len(reqs) - 1)),
                      reqs[Len(reqs)])

\* what the request that finds the socket unclaimed takes from it
ClaimSocket(request, socket) ==
    LET r1 == Copy(TRUE, request, "connect_start", socket, "connect_start")
        r2 == Copy(TRUE, r1, "connect_end", socket, "connect_end")
        r3 == Copy(TRUE, r2, "ssl_start", socket, "ssl_start")
        r4 == Copy(TRUE, r3, "ssl_end", socket, "ssl_end")
    IN  Copy(TRUE, r4, "certificates", socket, "certificates")

ClaimTls(request, socket) ==
    LET r1 == Copy(TRUE, request, "tls_version", socket, "tls_version")
        r2 == Copy(TRUE, r1, "tls_resumed", socket, "tls_resumed")
        r3 == Copy(TRUE, r2, "tls_next_proto", socket, "tls_next_proto")
    IN  Copy(TRUE, r3, "tls_cipher_suite", socket, "tls_cipher_suite")

\* 'claimed' not in socket
SocketUnclaimed(socket) == ~ Has(socket, "claimed")

\* Assign the socket connect time to the first request on each socket:
\* one iteration of  for request in requests
AttributeSocket(st, i) ==
    IF st.raised # "" THEN st ELSE
    LET nl == st.nl
        request == st.reqs[i].r
        linked == Has(request, "socket") /\ TblHas(nl.socket, request.socket)
        socket == IF linked THEN nl.socket.at[request.socket] ELSE EmptyDict
        r1 == Copy(TRUE, request, "server_address", socket, "address")
        r2 == Copy(TRUE, r1, "client_address", socket, "source_address")
        r3 == Copy(TRUE, r2, "socket_group", socket, "group")
        claim == linked /\ SocketUnclaimed(socket)
        r4 == ClaimSocket(r3, socket)
        nl1 == IF claim
               THEN Put(nl, "socket",
                        TblPut(nl.socket, request.socket,
                               Put(socket, "claimed", TRUE)))
               ELSE nl
        \* request['h2_session'] in self.netlog['h2_session']: KeyError
        raises == claim /\ Has(request, "h2_session") /\ ~ Has(nl, "h2_session")
        settings == claim /\ Has(request, "h2_session") /\ Has(nl, "h2_session")
                    /\ TblHas(nl.h2_session, request.h2_session)
        r5 == Copy(settings, r4, "http2_server_settings",
                   IF settings THEN nl.h2_session.at[request.h2_session]
                   ELSE EmptyDict, "server_settings")
        r6 == ClaimTls(r5, socket)
        Result(r, why) == [st EXCEPT !.nl = nl1, !.reqs[i].r = r, !.raised = why]
    IN  IF ~ linked THEN st
        ELSE IF ~ claim THEN Result(r3, "")
        ELSE IF raises THEN Result(r4, "KeyError: 'h2_session'")
        ELSE Result(r6, "")

RECURSIVE AttributeSockets(_, _)
AttributeSockets(st, i) ==
    IF i > Len(st.reqs) THEN st
    ELSE AttributeSockets(AttributeSocket(st, i), i + 1)

\* Build a mapping of the DNS lookups for each domain: the dns table with
\* 'elapsed' and 'times' filled in, and hostname -> id of its first lookup
RECURSIVE DnsLookups(_, _, _)
DnsLookups(ids, tbl, lookups) ==
    IF ids = <<>> THEN [tbl |-> tbl, lookups |-> lookups]
    ELSE LET dns == tbl.at[ids[1]]
             ok == Has(dns, "host") /\ Has(dns, "start") /\ Has(dns, "end")
                   /\ Has(dns, "address_list")
             good == ok /\ dns["end"] >= dns.start
             hostname == IF ok THEN HostPart(dns.host) ELSE ""
             window == [start |-> dns.start, end |-> dns["end"],
                        elapsed |-> dns["end"] - dns.start]
             tbl1 == TblPut(tbl, ids[1], Put(dns, "elapsed", window.elapsed))
             first == IF Has(lookups, hostname) THEN lookups[hostname]
                      ELSE ids[1]
             holder == tbl1.at[first]
             times == IF Has(holder, "times") THEN holder.times ELSE <<>>
             tbl2 == TblPut(tbl1, first,
                            Put(holder, "times", Append(times, window)))
         IN  IF good
             THEN DnsLookups(Tail(ids), tbl2, Put(lookups, hostname, first))
             ELSE DnsLookups(Tail(ids), tbl, lookups)

\* Find the longest DNS time that completed before the limit: the windows
\* clipped to the limit, and the [start, end] the request takes (or None)
RECURSIVE LongestWindow(_, _, _, _, _)
LongestWindow(times, limit, done, elapsed, best) ==
    IF times = <<>> THEN [times |-> done, best |-> best]
    ELSE LET e == Min(times[1]["end"], limit)
             fits == e >= times[1].start
             w == [times[1] EXCEPT !["end"] = e,
                      !.elapsed = IF fits THEN e - times[1].start ELSE @]
             better == fits /\ (elapsed = None \/ w.elapsed > elapsed.v)
         IN  LongestWindow(Tail(times), limit, Append(done, w),
                           IF better THEN [v |-> w.elapsed] ELSE elapsed,
                           IF better THEN [start |-> w.start, end |-> e]
                           ELSE best)

\* a lookup that is handed out again however often it was claimed
DnsUnclaimedForgetful(dns) == TRUE

\* 'claimed' not in dns_lookups[hostname]
DnsUnclaimed(dns) == ~ Has(dns, "claimed")

\* one iteration of either DNS pass; key is the request field that limits
\* the windows: connect_start in the first pass, start in the second
AttributeDns(st, i, key) ==
    IF st.raised # "" THEN st ELSE
    LET request == st.reqs[i].r
        hostname == UrlHostname(request.url)
        hit == Has(st.lookups, hostname)
               /\ DnsUnclaimed(st.nl.dns.at[st.lookups[hostname]])
        dns_id == IF hit THEN st.lookups[hostname] ELSE 0
        dns == IF hit THEN st.nl.dns.at[dns_id] ELSE EmptyDict
        claimed == Put(dns, "claimed", TRUE)
        \* request['start'] without a start: KeyError
        raises == hit /\ ~ Has(request, key)
        res == IF hit /\ ~ raises
               THEN LongestWindow(dns.times, request[key], <<>>, None, None)
               ELSE [times |-> <<>>, best |-> None]
        r1 == IF res.best # None
              THEN Put(Put(request, "dns_start", res.best.start),
                       "dns_end", res.best["end"])
              ELSE request
        Stored(d) == Put(st.nl, "dns", TblPut(st.nl.dns, dns_id, d))
    IN  IF ~ hit THEN st
        ELSE IF raises
        THEN [st EXCEPT !.nl = Stored(claimed), !.raised = "KeyError: 'start'"]
        ELSE [st EXCEPT !.nl = Stored(Put(claimed, "times", res.times)),
                        !.reqs[i].r = r1]

RECURSIVE AttributeDnsPass(_, _, _)
AttributeDnsPass(st, i, key) ==
    IF i > Len(st.reqs) THEN st
    ELSE AttributeDnsPass(
            IF key = "connect_start" /\ ~ Has(st.reqs[i].r, "connect_start")
            THEN st ELSE AttributeDns(st, i, key),
            i + 1, key)

\* Assign the DNS lookup to the first request that connected
AttributeAllDns(st) ==
    IF st.raised # "" \/ ~ Has(st.nl, "dns") THEN st
    ELSE LET built == DnsLookups(st.nl.dns.ids, st.nl.dns, EmptyDict)
             st1 == [nl |-> Put(st.nl, "dns", built.tbl), reqs |-> st.reqs,
                     known |-> st.known, last_time |-> st.last_time,
                     raised |-> st.raised, lookups |-> built.lookups]
             st2 == AttributeDnsPass(st1, 1, "connect_start")
             st3 == AttributeDnsPass(st2, 1, "start")
         IN  [nl |-> st3.nl, reqs |-> st3.reqs, known |-> st3.known,
              last_time |-> st3.last_time, raised |-> st3.raised]

\* Find the start timestamp if we didn't have one already: the minimum of
\* the timing fields of the requests (marked_start_time is never set)
\* a search that keeps the latest time where it should keep the earliest
RECURSIVE MinTimeLatest(_, _, _)
MinTimeLatest(r, names, start) ==
    IF names = <<>> THEN start
    ELSE MinTimeLatest(r, Tail(names),
            IF Has(r, names[1]) /\ (start = None \/ r[names[1]] > start.v)
            THEN [v |-> r[names[1]]] ELSE start)

RECURSIVE MinTime(_, _, _)
MinTime(r, names, start) ==
    IF names = <<>> THEN start
    ELSE MinTime(r, Tail(names),
            IF Has(r, names[1]) /\ (start = None \/ r[names[1]] < start.v)
            THEN [v |-> r[names[1]]] ELSE start)

RECURSIVE FindStartTime(_, _)
FindStartTime(reqs, start) ==
    IF reqs = <<>> THEN start
    ELSE FindStartTime(Tail(reqs), MinTime(reqs[1].r, TimeNames, start))

\* adjust all of the times to be relative in ms
NormalizeRequest(r, start) ==
    [k \in DOMAIN r |->
        IF k \in Range(TimeNames) THEN ToMs(r[k], start)
        ELSE IF k = "chunks"
        THEN [j \in DOMAIN r[k] |-> [r[k][j] EXCEPT !.ts = ToMs(@, start)]]
        ELSE r[k]]

\* the requests are the entities of the store: what was done to a request
\* was done to its entity
RECURSIVE WriteBack(_, _)
WriteBack(nl, reqs) ==
    IF reqs = <<>> THEN nl
    ELSE WriteBack(IF reqs[1].id = 0 THEN nl
                   ELSE Put(nl, "url_request",
                            TblPut(nl.url_request, reqs[1].id, reqs[1].r)),
                   Tail(reqs))

\* the whole function: [nl, requests, start_time, raised]; requests is None
\* or [v |-> the array], raised names the exception it left by
post_process_netlog_events(nl, cached, start) ==
    IF cached # None
    THEN [nl |-> nl, requests |-> cached, start_time |-> start, raised |-> ""]
    ELSE IF ~ Has(nl, "url_request")
    THEN [nl |-> nl, requests |-> None, start_time |-> start, raised |-> ""]
    ELSE
    LET st0 == [nl |-> nl, reqs |-> <<>>, known |-> KnownHosts, last_time |-> 0,
                raised |-> ""]
        Sorted(st2) == [st2 EXCEPT !.reqs = SortRequests(@)]
        Sockets(st3) ==
            IF Has(st3.nl, "socket") THEN AttributeSockets(st3, 1) ELSE st3
        \* the start time, the normalised times and the return
        Timed(st5) ==
            LET found == FindStartTime(st5.reqs, start)
                final == [i \in DOMAIN st5.reqs |->
                            [id |-> st5.reqs[i].id,
                             r  |-> NormalizeRequest(st5.reqs[i].r, found.v)]]
            IN  IF st5.raised # ""
                THEN [nl |-> WriteBack(st5.nl, st5.reqs), requests |-> None,
                      start_time |-> start, raised |-> st5.raised]
                ELSE IF found = None
                THEN [nl |-> WriteBack(st5.nl, st5.reqs), requests |-> None,
                      start_time |-> start, raised |-> ""]
                ELSE [nl |-> WriteBack(st5.nl, final),
                      requests |-> [v |-> [i \in DOMAIN final |-> final[i].r]],
                      start_time |-> found, raised |-> ""]
        Attributed(st2) ==
            IF st2.reqs = <<>>
            THEN [nl |-> st2.nl, requests |-> None, start_time |-> start,
                  raised |-> ""]
            ELSE Timed(AttributeAllDns(Sockets(Sorted(st2))))
        Collected(st1) ==
            IF st1.raised # ""
            THEN [nl |-> st1.nl, requests |-> None, start_time |-> start,
                  raised |-> st1.raised]
            ELSE Attributed(SynthesizeFailedHosts(st1))
    IN  Collected(PostProcessRequests(st0, nl.url_request.ids))

-----------------------------------------------------------------------------
(* NetLog.write_json and NetLog.write_netlog_requests                      *)

\* the output file after a write that failed part-way or never began
WriteFailed == [failed |-> TRUE]

\* write_json: ok says whether open and json.dump went through; when they
\* raise, except BaseException logs the exception and the method returns
write_json(ok, json_data) == IF ok THEN [v |-> json_data] ELSE WriteFailed

\* write_netlog_requests: what post-processing left, and the output file
\* (old when nothing was written)
write_netlog_requests(nl, cached, start, old, ok) ==
    LET Written(out) ==
            [nl |-> out.nl, requests |-> out.requests,
             start_time |-> out.start_time, raised |-> out.raised,
             out_file |-> IF out.raised = "" /\ out.requests # None
                          THEN write_json(ok, out.requests.v) ELSE old]
    IN  Written(post_process_netlog_events(nl, cached, start))

-----------------------------------------------------------------------------
(* NetLog.process_netlog: one iteration of  for line in file               *)

\* a framer that takes a line of the events array that is text but no
\* object for the end of the log, and resets its lookup tables for the next
FrameLineResetting(pe, cs, nl, rawline) ==
    LET line == Strip(rawline)
        same == [processing_events |-> pe, constants |-> cs, netlog |-> nl]
    IN  IF pe
        THEN IF StartsWithBrace(line)
             THEN LET event == JsonLoads(line)
                  IN  IF event = None THEN same
                      ELSE [same EXCEPT !.netlog = process_event(cs, nl, event.ok)]
             ELSE IF line # <<>>
             THEN [same EXCEPT !.processing_events = FALSE,
                               !.constants = EmptyDict]
             ELSE same
        ELSE IF StartsWithConstants(line)
        THEN LET raw == JsonLoadsClosed(line)
             IN  IF raw # None /\ Has(raw.ok, "constants")
                 THEN [same EXCEPT
                         !.constants = process_constants(cs, raw.ok.constants)]
                 ELSE same
        ELSE IF StartsWithEvents(line)
        THEN [same EXCEPT !.processing_events = TRUE]
        ELSE same

\* a framer without modes: it reads the constants and dispatches an object
\* wherever the line comes
FrameLineModeless(pe, cs, nl, rawline) ==
    LET line == Strip(rawline)
        same == [processing_events |-> pe, constants |-> cs, netlog |-> nl]
    IN  IF StartsWithConstants(line)
        THEN [same EXCEPT !.constants = process_constants(cs, ConstantsJson)]
        ELSE IF StartsWithBrace(line)
        THEN LET event == JsonLoads(line)
             IN  IF event = None THEN same
                 ELSE [same EXCEPT !.netlog = process_event(cs, nl, event.ok)]
        ELSE IF StartsWithEvents(line)
        THEN [same EXCEPT !.processing_events = TRUE]
        ELSE same

FrameLine(pe, cs, nl, rawline) ==
    LET line == Strip(rawline)
        same == [processing_events |-> pe, constants |-> cs, netlog |-> nl]
    IN  IF pe
        THEN IF StartsWithBrace(line)
             THEN LET event == JsonLoads(line)
                  IN  IF event = None THEN same   \* logged by the except clause
                      ELSE [same EXCEPT !.netlog = process_event(cs, nl, event.ok)]
             ELSE same
        ELSE IF StartsWithConstants(line)
        THEN LET raw == JsonLoadsClosed(line)
             IN  IF raw # None /\ Has(raw.ok, "constants")
                 THEN [same EXCEPT
                         !.constants = process_constants(cs, raw.ok.constants)]
                 ELSE same
        ELSE IF StartsWithEvents(line)
        THEN [same EXCEPT !.processing_events = TRUE]
        ELSE same

-----------------------------------------------------------------------------
(* The inputs: what the producer may write, by scenario *)

\* an event still without its time
T(name, source, id, phase, params) ==
    [name |-> name, source |-> source, id |-> id, phase |-> phase,
     params |-> params]

Dep(id) == [source_dependency |-> [id |-> id]]
HeaderList(hs) == [headers |-> [t |-> "list", v |-> hs]]

UrlA == Url("https", "a.example", "/")
UrlB == Url("https", "b.example", "/")
UrlFoo == Url("https", "foo.example", "/")
UrlLocal == Url("http", "127.0.0.1", "/")

\* HTTP_TRANSACTION_SEND_REQUEST_HEADERS of an HTTP/1.1 GET
SendHeaders(id, host, path) ==
    T("HTTP_TRANSACTION_SEND_REQUEST_HEADERS", "URL_REQUEST", id, "PHASE_NONE",
      Put(HeaderList(<< Header("Host", host) >>), "line", RequestLine("GET", path)))
\* HTTP_TRANSACTION_HTTP2_SEND_REQUEST_HEADERS of a GET over HTTP/2
SendH2Headers(id, authority, path) ==
    T("HTTP_TRANSACTION_HTTP2_SEND_REQUEST_HEADERS", "URL_REQUEST", id,
      "PHASE_NONE",
      HeaderList(<< Header(":method", "GET"), Header(":scheme", "https"),
                    Header(":authority", authority), Header(":path", path) >>))
ReadHeaders(id) ==
    T("HTTP_TRANSACTION_READ_RESPONSE_HEADERS", "URL_REQUEST", id, "PHASE_NONE",
      HeaderList(<< Header("HTTP/1.1", "200") >>))
StartJob(id, url) ==
    T("URL_REQUEST_START_JOB", "URL_REQUEST", id, "PHASE_BEGIN", [url |-> url])
BoundToSocket(job, socket) ==
    T("SOCKET_POOL_BOUND_TO_SOCKET", "HTTP_STREAM_JOB", job, "PHASE_NONE",
      Dep(socket))
BoundToRequest(job, request) ==
    T("HTTP_STREAM_JOB_BOUND_TO_REQUEST", "HTTP_STREAM_JOB", job, "PHASE_NONE",
      Dep(request))
RequestedSocket(job, group) ==
    T("TCP_CLIENT_SOCKET_POOL_REQUESTED_SOCKET", "HTTP_STREAM_JOB", job,
      "PHASE_BEGIN", [group_id |-> group])
DiskCacheEntry(id, url) ==
    T("DISK_CACHE_ENTRY_IMPL", "DISK_CACHE_ENTRY", id, "PHASE_BEGIN",
      [key |-> url])

\* HOST_RESOLVER_IMPL_ATTEMPT_STARTED / _FINISHED of a lookup of a.example
DnsStarted(id) ==
    T("HOST_RESOLVER_IMPL_ATTEMPT_STARTED", "HOST_RESOLVER_IMPL_JOB", id,
      "PHASE_NONE", [host |-> "a.example:443"])
DnsFinished(id) ==
    T("HOST_RESOLVER_IMPL_ATTEMPT_FINISHED", "HOST_RESOLVER_IMPL_JOB", id,
      "PHASE_NONE", [address_list |-> << "10.0.0.1:443" >>])
Redirected(id) ==
    T("URL_REQUEST_REDIRECTED", "URL_REQUEST", id, "PHASE_NONE", EmptyDict)
\* HTTP2_SESSION_RECV_PUSH_PROMISE for https://a.example/ on a new stream
PushPromise(session, stream) ==
    T("HTTP2_SESSION_RECV_PUSH_PROMISE", "HTTP2_SESSION", session, "PHASE_NONE",
      Put(HeaderList(<< Header(":scheme", "https"),
                        Header(":authority", "a.example"),
                        Header(":path", "/") >>),
          "promised_stream_id", stream))
AdoptedPushStream(session, stream, url) ==
    T("HTTP2_STREAM_ADOPTED_PUSH_STREAM", "HTTP2_SESSION", session, "PHASE_NONE",
      [stream_id |-> stream, url |-> url])

\* one TCP socket shared by two HTTP/1.1 requests
SocketTemplates ==
    { T("TCP_CONNECT_ATTEMPT", "SOCKET", 1, "PHASE_BEGIN",
        [address |-> "10.0.0.1:80"]),
      T("TCP_CONNECT_ATTEMPT", "SOCKET", 1, "PHASE_END", EmptyDict),
      T("SSL_CONNECT", "SOCKET", 1, "PHASE_BEGIN", EmptyDict),
      T("SSL_CONNECT", "SOCKET", 1, "PHASE_END", [version |-> "TLS 1.3"]),
      BoundToSocket(1, 1), BoundToRequest(1, 1), BoundToRequest(1, 2),
      SendHeaders(1, "a.example", "/1"), SendHeaders(2, "a.example", "/2") }

\* stream jobs that asked for a socket and never got one, next to a request
FailedTemplates ==
    { RequestedSocket(1, Group("ssl/", "foo.example", "443")),
      RequestedSocket(2, Group("pm/", "127.0.0.1", "80")),
      BoundToRequest(1, 1),
      DiskCacheEntry(1, UrlFoo), DiskCacheEntry(2, UrlLocal),
      SendHeaders(1, "a.example", "/1"), ReadHeaders(1) }

\* two lookups of one host and two requests to it
DnsTemplates ==
    { DnsStarted(1), DnsFinished(1), DnsStarted(2), DnsFinished(2),
      SendH2Headers(1, "a.example", "/1"), SendH2Headers(2, "a.example", "/2") }

\* a lookup of a host that is only known from the disk cache and a stream job
\* whose socket never attached
DnsFailedTemplates ==
    { DnsStarted(1), DnsFinished(1),
      RequestedSocket(1, Group("ssl/", "a.example", "443")),
      DiskCacheEntry(1, UrlA), DiskCacheEntry(2, Url("https", "a.example", "/x")),
      SendH2Headers(3, "b.example", "/3") }

\* a URL request that is redirected and goes on under the same id; the
\* producer's ids are a counter, which may have reached any value
RedirectTemplates ==
    { StartJob(1, UrlA), StartJob(1, UrlB), SendHeaders(1, "a.example", "/"),
      ReadHeaders(1), Redirected(1),
      StartJob(NextRequestIdBase, UrlA), Redirected(NextRequestIdBase) }

\* a pushed stream and the URL requests that may adopt it
PushTemplates ==
    { StartJob(1, UrlA), StartJob(2, UrlA), PushPromise(1, 2),
      AdoptedPushStream(1, 2, UrlA),
      SendHeaders(1, "a.example", "/"), SendHeaders(2, "a.example", "/") }

Scenarios == {"socket", "failed", "dns", "dnsfailed", "redirect", "push",
              "frame"}

Templates(scn) ==
    CASE scn = "socket"   -> SocketTemplates
      [] scn = "failed"   -> FailedTemplates
      [] scn = "dns"      -> DnsTemplates
      [] scn = "dnsfailed" -> DnsFailedTemplates
      [] scn = "redirect" -> RedirectTemplates
      [] scn = "push"     -> PushTemplates
      [] scn = "frame"    -> { SendH2Headers(1, "a.example", "/1") }
      [] scn = "stream"   -> { SendH2Headers(1, "a.example", "/1"),
                               SendH2Headers(2, "a.example", "/2") }
      \* a request whose body is counted raw and decoded
      [] scn = "bytes"    ->
            { SendH2Headers(1, "a.example", "/1"),
              T("URL_REQUEST_JOB_BYTES_READ", "URL_REQUEST", 1, "PHASE_NONE",
                [byte_count |-> 100]),
              T("URL_REQUEST_JOB_FILTERED_BYTES_READ", "URL_REQUEST", 1,
                "PHASE_NONE", [byte_count |-> 300]) }
      \* a request; InputLines adds its variants with codes that are not in
      \* the constants and with textual ids
      [] scn = "codes"    -> { SendH2Headers(1, "a.example", "/1") }
      \* the requests of one DNS job
      [] scn = "dnsjob"   ->
            { T("HOST_RESOLVER_IMPL_REQUEST", "HOST_RESOLVER_IMPL_JOB", 1,
                "PHASE_BEGIN", [host |-> "a.example:443"]),
              T("HOST_RESOLVER_IMPL_REQUEST", "HOST_RESOLVER_IMPL_JOB", 1,
                "PHASE_END", [address_list |-> << "10.0.0.1:443" >>]) }
      \* an HTTP/2 session on a socket
      [] scn = "h2init"   ->
            { T("TCP_CONNECT_ATTEMPT", "SOCKET", 1, "PHASE_BEGIN",
                [address |-> "10.0.0.1:443"]),
              T("HTTP2_SESSION_INITIALIZED", "HTTP2_SESSION", 2, "PHASE_NONE",
                Dep(1)),
              SendH2Headers(1, "a.example", "/1") }
      \* a URL request that names an HTTP/2 stream, and no event of a session
      [] scn = "orphan"   ->
            { T("HTTP2_STREAM_ADOPTED_PUSH_STREAM", "URL_REQUEST", 1,
                "PHASE_NONE", [stream_id |-> 2, url |-> UrlA]),
              SendH2Headers(2, "b.example", "/2") }
      \* bytes on a socket, the TCP and the UDP way, on a stream of an
      \* HTTP/2 session and on a URL request
      [] scn = "counters" ->
            { T("SOCKET_BYTES_SENT", "SOCKET", 1, "PHASE_NONE",
                [byte_count |-> 10]),
              T("SOCKET_BYTES_RECEIVED", "SOCKET", 1, "PHASE_NONE",
                [byte_count |-> 20]),
              T("UDP_BYTES_SENT", "UDP_SOCKET", 1, "PHASE_NONE",
                [byte_count |-> 30]),
              T("UDP_BYTES_RECEIVED", "UDP_SOCKET", 1, "PHASE_NONE",
                [byte_count |-> 40]),
              T("HTTP2_SESSION_RECV_DATA", "HTTP2_SESSION", 1, "PHASE_NONE",
                [stream_id |-> 1, size |-> 50]),
              T("URL_REQUEST_JOB_BYTES_READ", "URL_REQUEST", 1, "PHASE_NONE",
                [byte_count |-> 60]) }
      \* events of the resolver on sources of other kinds, events of other
      \* names on the resolver's source, and a source kind without a handler
      [] scn = "routing"  ->
            { T("HOST_RESOLVER_IMPL_REQUEST", "URL_REQUEST", 1, "PHASE_BEGIN",
                [host |-> "a.example:443"]),
              T("HOST_RESOLVER_IMPL_ATTEMPT_STARTED", "NONE", 2, "PHASE_NONE",
                [host |-> "a.example:443"]),
              T("REQUEST_ALIVE", "HOST_RESOLVER_IMPL_JOB", 3, "PHASE_BEGIN",
                [host |-> "b.example:443"]),
              T("REQUEST_ALIVE", "NONE", 4, "PHASE_BEGIN", [priority |-> "HIGHEST"]),
              T("REQUEST_ALIVE", "SSL_CONNECT_JOB", 5, "PHASE_BEGIN",
                [group_name |-> Group("ssl/", "a.example", "443")]),
              T("REQUEST_ALIVE", "URL_REQUEST", 1, "PHASE_BEGIN",
                [priority |-> "HIGHEST"]) }

\* the event lines the producer may write as line n + 1
EventLines(scn, n) ==
    {EventLine(Event(t.name, t.source, t.id, t.phase, (n + 1) * TickUs,
                     t.params)) : t \in Templates(scn)}

\* the lines the producer may write next, after n lines: a well-formed log,
\* except in the scenario "frame", where any line may come at any place
InputLines(scn, n) ==
    IF scn = "frame"
    THEN {ConstantsLine, EventsLine, CloseLine, << Tok("TRUNC") >>}
            \cup EventLines(scn, n)
    ELSE IF n = 0 THEN {ConstantsLine}
    ELSE IF n = 1 THEN {EventsLine}
    ELSE IF scn = "codes"
    THEN LET Variants(ev) ==
                 {ev, [ev EXCEPT !.type = 999], [ev EXCEPT !.source.type = 999],
                  [ev EXCEPT !.phase = 999], [ev EXCEPT !.source.id = PyStr("1")],
                  [ev EXCEPT !.source.id = PyStr("a")]}
         IN  UNION {{EventLine(v) : v \in Variants(line[1].ev)} :
                        line \in EventLines(scn, n)}
    ELSE EventLines(scn, n)

-----------------------------------------------------------------------------
(* The state machine *)

NewNetlog == [bytes_in |-> 0, bytes_out |-> 0,
              next_request_id |-> NextRequestIdBase]

\* NetLog.__init__, and the input not yet read
InitOf(scns) ==
    /\ scenario \in scns
    /\ constants = EmptyDict
    /\ processing_events = FALSE
    /\ netlog = NewNetlog
    /\ netlog_requests = None
    /\ start_time = None
    /\ file = <<>>
    /\ pc = "reading"
    /\ out_file = None
    /\ lock = "none" /\ cpc = "off" /\ hpc = "off"
    /\ pipe = None /\ cd = None /\ cline = None /\ snapshot = None

\* process_netlog reads one more line
ReadLine ==
    /\ pc = "reading"
    /\ Len(file) < MaxLines
    /\ \E line \in InputLines(scenario, Len(file)) :
        \E next \in {FrameLine(processing_events, constants, netlog, line)} :
            /\ processing_events' = next.processing_events
            /\ constants' = next.constants
            /\ netlog' = next.netlog
            /\ file' = Append(file, line)
    /\ UNCHANGED <<netlog_requests, start_time, pc, scenario, out_file>>
    /\ UNCHANGED stream_vars

\* the input ended (or was cut): main calls write_netlog_requests
WriteNetlogRequests ==
    /\ pc = "reading"
    /\ \E ok \in BOOLEAN :
        \E out \in {write_netlog_requests(netlog, netlog_requests, start_time,
                                          out_file, ok)} :
           /\ netlog' = out.nl
           /\ netlog_requests' = IF out.raised = "" THEN out.requests
                                 ELSE netlog_requests
           /\ start_time' = out.start_time
           /\ out_file' = out.out_file
           \* main returns when the call returns, and ends by the exception
           \* when it raises
           /\ pc' = IF out.raised = "" THEN "written" ELSE "raised"
    /\ UNCHANGED <<constants, processing_events, file, scenario>>
    /\ UNCHANGED stream_vars

Next == ReadLine \/ WriteNetlogRequests

Init == InitOf(Scenarios)
Spec == Init /\ [][Next]_vars

InitSocket == InitOf({"socket"})
SpecSocket == InitSocket /\ [][Next]_vars
InitFailed == InitOf({"failed"})
SpecFailed == InitFailed /\ [][Next]_vars
InitDns == InitOf({"dns", "dnsfailed"})
SpecDns == InitDns /\ [][Next]_vars
InitRedirect == InitOf({"redirect"})
SpecRedirect == InitRedirect /\ [][Next]_vars
InitPush == InitOf({"push"})
SpecPush == InitPush /\ [][Next]_vars
InitFrame == InitOf({"frame"})
SpecFrame == InitFrame /\ [][Next]_vars
InitEvents ==
    InitOf({"bytes", "codes", "counters", "dnsjob", "h2init", "orphan",
            "routing"})
SpecEvents == InitEvents /\ [][Next]_vars

\* the requests emitted, <<>> when none
Emitted == IF pc = "written" /\ netlog_requests # None THEN netlog_requests.v
           ELSE <<>>

-----------------------------------------------------------------------------
(* What the input contained, read back from the lines *)

SetMin(S) == CHOOSE x \in S : \A y \in S : x <= y
SetMax(S) == CHOOSE x \in S : \A y \in S : x >= y

\* the position of the "events": [ line, or 0 while it has not been read
EventsMarkAt ==
    LET at == {i \in DOMAIN file : StartsWithEvents(Strip(file[i]))}
    IN  IF at = {} THEN 0 ELSE SetMin(at)

\* the events the producer logged in the events array, in arrival order
LoggedAt == {i \in DOMAIN file : /\ EventsMarkAt # 0
                                 /\ i > EventsMarkAt
                                 /\ JsonLoads(Strip(file[i])) # None}
Logged(i) == JsonLoads(Strip(file[i])).ok

\* the times of the logged events of that type, source and phase code
LoggedTimes(name, source, id, phase) ==
    {Logged(i).time : i \in {j \in LoggedAt :
        /\ Logged(j).type = TypeCode(name)
        /\ Logged(j).source.type = SourceCode(source)
        /\ Logged(j).source.id = PyInt(id)
        /\ Logged(j).phase = PhaseCode(phase)}}

\* the emitted requests on a socket, by position in the array
OnSocket(s) == {i \in DOMAIN Emitted :
                    Has(Emitted[i], "socket") /\ Emitted[i].socket = s}
EmittedSockets == {Emitted[i].socket :
                    i \in {j \in DOMAIN Emitted : Has(Emitted[j], "socket")}}

ConnectTimings == {"connect_start", "connect_end", "ssl_start", "ssl_end"}

-----------------------------------------------------------------------------
(* C1 *)

\* C1: after post-processing, for every socket that an emitted request names
\* (stated here for the sockets whose TCP connect the producer logged),
\* exactly one emitted request on that socket carries connect_start, and
\* every other emitted request on it carries none of connect_start,
\* connect_end, ssl_start, ssl_end.
C1_OneClaimantPerSocket ==
    \A s \in EmittedSockets :
        LoggedTimes("TCP_CONNECT_ATTEMPT", "SOCKET", s, "PHASE_BEGIN") # {}
        => /\ Cardinality({i \in OnSocket(s) :
                            Has(Emitted[i], "connect_start")}) = 1
           /\ \A i \in OnSocket(s) :
                ~ Has(Emitted[i], "connect_start")
                => DOMAIN Emitted[i] \cap ConnectTimings = {}

-----------------------------------------------------------------------------
(* C8 *)

\* C8: a request that is the first in the emitted order on a TCP socket for
\* which TCP_CONNECT_ATTEMPT was logged with the PHASE_BEGIN and PHASE_END
\* codes is emitted with connect_start and connect_end equal to the times of
\* those events (the first begin, the last end) relative to the start time;
\* likewise SSL_CONNECT begin and end give ssl_start and ssl_end.
PhaseTimesEmitted(r, s, name, from, to) ==
    LET begins == LoggedTimes(name, "SOCKET", s, "PHASE_BEGIN")
        ends == LoggedTimes(name, "SOCKET", s, "PHASE_END")
    IN  (begins # {} /\ ends # {})
        => /\ Has(r, from) /\ r[from] = ToMs(SetMin(begins), start_time.v)
           /\ Has(r, to) /\ r[to] = ToMs(SetMax(ends), start_time.v)

C8_ConnectTimesFromPhases ==
    \A s \in EmittedSockets :
        LET first == Emitted[SetMin(OnSocket(s))]
        IN  /\ PhaseTimesEmitted(first, s, "TCP_CONNECT_ATTEMPT",
                                 "connect_start", "connect_end")
            /\ PhaseTimesEmitted(first, s, "SSL_CONNECT", "ssl_start", "ssl_end")

-----------------------------------------------------------------------------
(* C3 *)

\* C3: whatever the events were (stream jobs and disk-cache URL hints that
\* lead to failed-host synthesis included), no request of the
\* post-processed output has a URL beginning with http://127.0.0.1 or
\* http://192.168.10.
C3_NoLocalUrlEmitted ==
    \A i \in DOMAIN Emitted : ~ IsLocalUrl(Emitted[i].url)

-----------------------------------------------------------------------------
(* C4 *)

Ordered(r, a, b) == (Has(r, a) /\ Has(r, b)) => r[a] <= r[b]

\* C4: the events arrive with non-decreasing timestamps (they do in every
\* input of the model), and every emitted request has
\* start <= first_byte <= end and
\* connect_start <= connect_end <= ssl_start <= ssl_end, each comparison
\* between two fields that are both present.
C4_TimingsOrdered ==
    \A i \in DOMAIN Emitted :
        LET r == Emitted[i]
        IN  /\ Ordered(r, "start", "first_byte")
            /\ Ordered(r, "first_byte", "end")
            /\ Ordered(r, "connect_start", "connect_end")
            /\ Ordered(r, "connect_end", "ssl_start")
            /\ Ordered(r, "ssl_start", "ssl_end")

-----------------------------------------------------------------------------
(* C7 *)

\* the stream jobs that requested a socket for the host and never got one
UnboundJobs(host) ==
    IF ~ Has(netlog, "stream_job") THEN {}
    ELSE {id \in Range(netlog.stream_job.ids) :
            LET job == netlog.stream_job.at[id]
            IN  /\ Has(job, "group") /\ GroupMatches(job.group)
                /\ job.group.host = host
                /\ Has(job, "socket_start") /\ ~ Has(job, "socket")}

\* the URLs on the host that DISK_CACHE_ENTRY events recorded
HintedUrls(host) ==
    IF ~ Has(netlog, "urls") THEN {}
    ELSE {u \in Range(netlog.urls.ids) : UrlHostname(u) = host}

\* the hosts of the URL requests in the store
RequestedHosts ==
    IF ~ Has(netlog, "url_request") THEN {}
    ELSE {UrlHostname(netlog.url_request.at[id].url) :
            id \in {x \in Range(netlog.url_request.ids) :
                        Has(netlog.url_request.at[x], "url")}}

\* C7: when a stream job whose group ends in /<host>:<port> requested a
\* socket and was never bound to one, a DISK_CACHE_ENTRY event recorded one
\* URL on that host and no URL request for that host was seen, the output
\* has exactly one request for that URL, with status 12029; also when the
\* log has no URL_REQUEST event at all.
C7_FailedHostSynthesized ==
    pc = "written" =>
        \A host \in {"foo.example", "127.0.0.1"} :
            ( /\ UnboundJobs(host) # {}
              /\ Cardinality(HintedUrls(host)) = 1
              /\ host \notin RequestedHosts )
            => \A u \in HintedUrls(host) :
                /\ Cardinality({i \in DOMAIN Emitted : Emitted[i].url = u}) = 1
                /\ \A i \in DOMAIN Emitted :
                    Emitted[i].url = u
                    => Has(Emitted[i], "status") /\ Emitted[i].status = 12029

-----------------------------------------------------------------------------
(* C2 *)

\* the emitted requests to a host that carry a DNS window
WithDns(host) == {i \in DOMAIN Emitted : /\ UrlHostname(Emitted[i].url) = host
                                         /\ Has(Emitted[i], "dns_start")}
EmittedHosts == {UrlHostname(Emitted[i].url) : i \in DOMAIN Emitted}

\* C2: after post-processing a DNS window is attributed to at most one
\* request: for every hostname at most one emitted request carries
\* dns_start and dns_end, whether the connect_start pass or the fallback
\* pass on the request start assigned it, and however many lookups
\* resolved the host.
C2_DnsAttributedOnce ==
    \A host \in EmittedHosts :
        /\ Cardinality(WithDns(host)) <= 1
        /\ \A i \in DOMAIN Emitted :
            Has(Emitted[i], "dns_start") <=> Has(Emitted[i], "dns_end")

\* two lookups resolved a.example, two requests to it were emitted, and the
\* window went to one of them
C2_Witness ==
    /\ pc = "written"
    /\ Has(netlog, "dns") /\ Len(netlog.dns.ids) = 2
    /\ \A id \in Range(netlog.dns.ids) : Has(netlog.dns.at[id], "elapsed")
    /\ Cardinality({i \in DOMAIN Emitted :
                        UrlHostname(Emitted[i].url) = "a.example"}) = 2
    /\ Cardinality(WithDns("a.example")) = 1

-----------------------------------------------------------------------------
(* Steps that read one line *)

\* this step read a line (the last of file' is the line read)
ReadsLine == Len(file') = Len(file) + 1
LineRead == Strip(file'[Len(file')])

\* this step read, in the events array, an event of that type on a URL
\* request with a numeric id
ReadsUrlRequestEvent ==
    /\ ReadsLine /\ processing_events
    /\ JsonLoads(LineRead) # None
    /\ JsonLoads(LineRead).ok.source.type = SourceCode("URL_REQUEST")
    /\ JsonLoads(LineRead).ok.source.id.t = "int"
EventRead == JsonLoads(LineRead).ok
EventReadIs(name) == EventRead.type = TypeCode(name)

\* the URL requests of a store
UrlRequests(nl) == TableOf(nl, "url_request")
Emittable(e) == /\ Has(e, "url") /\ ~ IsLocalUrl(e.url)
                /\ Has(e, "request_headers") /\ ~ Has(e, "phantom")

-----------------------------------------------------------------------------
(* C5 *)

\* URL_REQUEST_REDIRECTED on id X: X leaves the table, and the next synthetic
\* id holds the entity as it was
RedirectRekeys ==
    LET X == EventRead.source.id.v
        new_id == netlog.next_request_id
    IN  ( /\ ReadsUrlRequestEvent /\ EventReadIs("URL_REQUEST_REDIRECTED")
          /\ TblHas(UrlRequests(netlog), X) )
        => /\ ~ TblHas(UrlRequests(netlog'), X)
           /\ TblHas(UrlRequests(netlog'), new_id)
           /\ UrlRequests(netlog').at[new_id] = UrlRequests(netlog).at[X]
           /\ netlog'.next_request_id = new_id + 1

\* a later event on X finds no entity and makes a fresh one, created at the
\* time of that event; the re-keyed entities are left as they are
FreshAfterRedirect ==
    LET X == EventRead.source.id.v
    IN  ( /\ ReadsUrlRequestEvent /\ ~ EventReadIs("URL_REQUEST_REDIRECTED")
          /\ LoggedTimes("URL_REQUEST_REDIRECTED", "URL_REQUEST", X,
                         "PHASE_NONE") # {}
          /\ ~ TblHas(UrlRequests(netlog), X) )
        => /\ TblHas(UrlRequests(netlog'), X)
           /\ UrlRequests(netlog').at[X].created = EventRead.time
           /\ \A id \in Range(UrlRequests(netlog).ids) :
                UrlRequests(netlog').at[id] = UrlRequests(netlog).at[id]

\* post-processing emits the re-keyed request and the request that went on
\* under the old id as two requests, in the order of their start
BothEmittedInOrder ==
    (pc = "reading" /\ pc' = "written")
    => /\ \A s, x \in Range(UrlRequests(netlog).ids) :
            LET pre == UrlRequests(netlog).at[s]
                post == UrlRequests(netlog).at[x]
            IN  ( /\ s # x
                  /\ Emittable(pre) /\ Emittable(post) /\ pre.url # post.url )
                => \E i, j \in DOMAIN Emitted' :
                    /\ i # j
                    /\ Emitted'[i].url = pre.url /\ Emitted'[j].url = post.url
       /\ \A i, j \in DOMAIN Emitted' :
            i < j => Emitted'[i].start <= Emitted'[j].start

\* C5: when URL_REQUEST_REDIRECTED is processed for URL request id X, X
\* disappears from the URL-request table and a new synthetic id holds the
\* entity with all its state from before the redirect; URL_REQUEST events
\* that come afterwards with id X create a fresh
\* entity; and post-processing emits the request before and the request
\* after the redirect as two requests with their two URLs, ordered by
\* non-decreasing start.
C5_RedirectSplitsRequest ==
    [][RedirectRekeys /\ FreshAfterRedirect /\ BothEmittedInOrder]_vars

-----------------------------------------------------------------------------
(* C6 *)

\* the URL requests for url u: the ones a push promise synthesized, and the
\* others
PushedFor(nl, u) ==
    {id \in Range(UrlRequests(nl).ids) :
        LET e == UrlRequests(nl).at[id]
        IN  Has(e, "url") /\ e.url = u /\ Has(e, "pushed")}
OthersFor(nl, u) ==
    {id \in Range(UrlRequests(nl).ids) :
        LET e == UrlRequests(nl).at[id]
        IN  Has(e, "url") /\ e.url = u /\ ~ Has(e, "pushed")}
PlaceholdersFor(nl, u) ==
    {id \in OthersFor(nl, u) : ~ Has(UrlRequests(nl).at[id], "start")}

\* HTTP2_STREAM_ADOPTED_PUSH_STREAM naming u, after a push promise made a
\* request for u: a placeholder for u becomes phantom
AdoptionMarksPlaceholder ==
    ( /\ ReadsLine /\ processing_events /\ JsonLoads(LineRead) # None
      /\ EventReadIs("HTTP2_STREAM_ADOPTED_PUSH_STREAM")
      /\ PushedFor(netlog, EventRead.params.url) # {}
      /\ PlaceholdersFor(netlog, EventRead.params.url) # {} )
    => \E id \in PlaceholdersFor(netlog, EventRead.params.url) :
            Has(UrlRequests(netlog').at[id], "phantom")

\* with the placeholder phantom, the pushed request is the one request
\* emitted for u
OneEmittedForPushedUrl ==
    (pc = "reading" /\ pc' = "written")
    => \A u \in {UrlA} :
        ( /\ Cardinality(PushedFor(netlog, u)) = 1
          /\ OthersFor(netlog, u) # {}
          /\ \A id \in OthersFor(netlog, u) :
                Has(UrlRequests(netlog).at[id], "phantom") )
        => /\ Cardinality({i \in DOMAIN Emitted' : Emitted'[i].url = u}) = 1
           /\ \A i \in DOMAIN Emitted' :
                Emitted'[i].url = u => Has(Emitted'[i], "pushed")

-----------------------------------------------------------------------------
(* C10 *)

\* what post-processing would emit for a store
OutputOf(nl) == post_process_netlog_events(nl, None, None).requests

\* C10: the closing ]} line changes nothing: after any lines, reading it
\* leaves the entity store and the lookup tables as they were, and so the
\* output of the input cut before it equals the output of the input that
\* ends with it.
C10_ClosingLineIsNoOp ==
    [][(ReadsLine /\ LineRead = << Tok("CLOSE") >>)
        => /\ netlog' = netlog
           /\ constants' = constants
           /\ OutputOf(netlog') = OutputOf(netlog)]_vars

\* a log of events that ends with the closing line and gives a request
C10_Witness ==
    /\ pc = "written"
    /\ file # <<>> /\ file[Len(file)] = CloseLine
    /\ Len(Emitted) = 1

-----------------------------------------------------------------------------
(* C16 *)

\* C16: a failure while writing the output file is reported to the caller:
\* when the write failed, write_netlog_requests did not return normally and
\* the batch run ended by the failure.
C16_WriteFailureReported == out_file = WriteFailed => pc = "raised"

-----------------------------------------------------------------------------
(* C17 *)

\* C17: when no request survives (here: the log had no URL request at all),
\* post-processing yields an empty array of requests and that empty array
\* is what is written for the window.
C17_EmptyArrayEmitted ==
    (pc = "written" /\ ~ Has(netlog, "url_request"))
    => /\ netlog_requests = [v |-> <<>>]
       /\ out_file \in {[v |-> <<>>], WriteFailed}

-----------------------------------------------------------------------------
(* C18 *)

\* the entity of that kind and id is in the store
Exists(nl, kind, id) == Has(nl, kind) /\ TblHas(nl[kind], id)

\* the entities of a kind, by id
EntitiesOf(nl, kind) ==
    IF Has(nl, kind) THEN {nl[kind].at[id] : id \in Range(nl[kind].ids)} ELSE {}

\* the field of e that refers to an entity of that kind names one, if present
RefersToExisting(nl, e, field, kind) ==
    Has(e, field) => Exists(nl, kind, e[field])

\* C18: after post-processing, each back-reference (socket, h2_session, dns,
\* url_request) held by an entity or by an emitted request names an entity
\* that is in the store, or is absent: a source_dependency that names an
\* absent entity made no link.
C18_NoDanglingReference ==
    pc = "written" =>
        /\ \A i \in DOMAIN Emitted :
            /\ RefersToExisting(netlog, Emitted[i], "socket", "socket")
            /\ RefersToExisting(netlog, Emitted[i], "h2_session", "h2_session")
        /\ \A e \in EntitiesOf(netlog, "stream_job") :
            /\ RefersToExisting(netlog, e, "socket", "socket")
            /\ RefersToExisting(netlog, e, "url_request", "url_request")
            /\ RefersToExisting(netlog, e, "h2_session", "h2_session")
        /\ \A e \in EntitiesOf(netlog, "connect_job") :
            /\ RefersToExisting(netlog, e, "socket", "socket")
            /\ RefersToExisting(netlog, e, "dns", "dns")
        /\ \A e \in EntitiesOf(netlog, "url_request") :
            /\ RefersToExisting(netlog, e, "socket", "socket")
            /\ RefersToExisting(netlog, e, "h2_session", "h2_session")
        /\ \A e \in EntitiesOf(netlog, "h2_session") :
            RefersToExisting(netlog, e, "socket", "socket")

-----------------------------------------------------------------------------
(* C19 *)

\* the events that send a request
SendRequestNames ==
    {"HTTP_TRANSACTION_SEND_REQUEST", "HTTP_TRANSACTION_SEND_REQUEST_HEADERS",
     "HTTP_TRANSACTION_HTTP2_SEND_REQUEST_HEADERS",
     "HTTP_TRANSACTION_QUIC_SEND_REQUEST_HEADERS"}

\* the URL request of that id logged one of them
ObservedSendRequest(id) ==
    \E i \in LoggedAt :
        /\ Logged(i).source.type = SourceCode("URL_REQUEST")
        /\ Logged(i).source.id = PyInt(id)
        /\ Logged(i).type \in {TypeCode(name) : name \in SendRequestNames}

\* C19 as stated: after post-processing, fromNet is true for a URL request
\* if and only if that URL request observed SEND_REQUEST
C19_FromNetIffSendRequest ==
    pc = "written" =>
        \A id \in Range(UrlRequests(netlog).ids) :
            UrlRequests(netlog).at[id].fromNet = ObservedSendRequest(id)

\* C19: after post-processing, fromNet is true for a URL request if and only
\* if a start time was recorded for it; the start time is recorded by an
\* event that sends the request, and for a pushed request by the push
\* promise that made it, so that a URL request that is not pushed has fromNet
\* true if and only if it observed SEND_REQUEST.
C19_FromNetIffStart ==
    pc = "written" =>
        /\ \A id \in Range(UrlRequests(netlog).ids) :
            /\ Has(UrlRequests(netlog).at[id], "fromNet")
            /\ UrlRequests(netlog).at[id].fromNet
                    = Has(UrlRequests(netlog).at[id], "start")
            /\ UrlRequests(netlog).at[id].fromNet
                    = ( \/ Has(UrlRequests(netlog).at[id], "pushed")
                        \/ ObservedSendRequest(id) )
        /\ \A i \in DOMAIN Emitted :
            Emitted[i].fromNet = Has(Emitted[i], "start")

\* after post-processing, a request that sent its headers and is marked, a
\* pushed request that is marked, and a request that only started its job
\* and is not
C19_Witness ==
    /\ pc = "written"
    /\ \E id \in Range(UrlRequests(netlog).ids) :
        /\ ObservedSendRequest(id)
        /\ UrlRequests(netlog).at[id].fromNet
    /\ \E id \in Range(UrlRequests(netlog).ids) :
        /\ Has(UrlRequests(netlog).at[id], "pushed")
        /\ UrlRequests(netlog).at[id].fromNet
    /\ \E id \in Range(UrlRequests(netlog).ids) :
        /\ ~ Has(UrlRequests(netlog).at[id], "start")
        /\ ~ UrlRequests(netlog).at[id].fromNet

-----------------------------------------------------------------------------
(* C20 *)

\* the timing fields a request has
TimesOf(r) == {k \in Range(TimeNames) : Has(r, k)}

\* the URL requests of the store that are in the emitted array: a request of
\* the array is the entity of the store
EmittedIds(nl, requests) ==
    {id \in Range(UrlRequests(nl).ids) :
        \E i \in DOMAIN requests : requests[i] = UrlRequests(nl).at[id]}

\* the step that post-processes the store and emits an array
Emits == pc = "reading" /\ pc' = "written" /\ netlog_requests' # None

\* C20: time normalization subtracts one start time, the minimum of all
\* timing fields over the surviving requests: in the emitted array every
\* timing field is >= 0, at least one timing field equals 0, and the
\* difference between any two timing fields, of one request or of two,
\* equals the difference of their raw microsecond values divided by 1000.
C20_TimesNormalized ==
    [][Emits =>
        /\ \A i \in DOMAIN Emitted' : \A k \in TimesOf(Emitted'[i]) :
                Emitted'[i][k] >= 0
        /\ \E i \in DOMAIN Emitted' : \E k \in TimesOf(Emitted'[i]) :
                Emitted'[i][k] = 0
        /\ \A id1, id2 \in EmittedIds(netlog', Emitted') :
            \A a \in TimesOf(UrlRequests(netlog).at[id1]) :
            \A b \in TimesOf(UrlRequests(netlog).at[id2]) :
                UrlRequests(netlog').at[id1][a] - UrlRequests(netlog').at[id2][b]
                    = (UrlRequests(netlog).at[id1][a]
                        - UrlRequests(netlog).at[id2][b]) \div 1000
    ]_vars

\* two requests emitted that start at different times, after the DNS lookup
\* whose start is the start time of the array
C20_Witness ==
    /\ pc = "written"
    /\ start_time # None /\ start_time.v > 0
    /\ Cardinality(EmittedIds(netlog, Emitted)) = 2
    /\ \E i, j \in DOMAIN Emitted :
        /\ Has(Emitted[i], "dns_start") /\ Emitted[i].dns_start = 0
        /\ Emitted[i].start > 0
        /\ Emitted[j].start > Emitted[i].start

-----------------------------------------------------------------------------
(* ChromeDesktop: the netlog streamed through a FIFO                       *)
(*                                                                         *)
(* Three processes: the browser, which writes the pipe; the thread          *)
(* process_netlog_stream, which reads it (cpc is its position); and the     *)
(* harness, which calls launch, on_start_recording, on_stop_recording and   *)
(* stop (hpc is its position).  file holds the lines written to the pipe,   *)
(* pipe.read how many of them the thread has read.  A with-block on         *)
(* netlog_lock is two steps: take the lock, then do the work and release.   *)

\* a lock that lets everybody in
FreeAlways(l) == TRUE

\* threading.Lock: acquire goes through when nobody holds it
Free(l) == l = "none"

\* the lines the browser may write as line n + 1: a well-formed log with
\* lines that hold a lone comma or a cut-off object among the events
PipeLines(n) ==
    IF n = 0 THEN {ConstantsLine}
    ELSE IF n = 1 THEN {EventsLine}
    ELSE EventLines("stream", n) \cup {<< Tok(","), Tok("\n") >>, << Tok("TRUNC") >>}

\* NetLogParser.clear_requests: the URL requests, the stream jobs and the
\* streams of the sessions go; sockets, sessions and DNS lookups stay
clear_requests(nl) ==
    LET NoStreams(t) ==
            [t EXCEPT !.at = [id \in DOMAIN t.at |->
                PutIf(Has(t.at[id], "stream"), t.at[id], "stream", EmptyDict)]]
        Sessions(n, kind) ==
            IF Has(n, kind) THEN Put(n, kind, NoStreams(n[kind])) ELSE n
    IN  Sessions(Sessions(Del(Del(nl, "url_request"), "stream_job"),
                          "h2_session"), "quic_session")

\* a try body that handles event lines whatever the recording flag says
StreamLineUngated(pe, cs, nl, recording, parser, rawline) ==
    LET same == [processing_events |-> pe, constants |-> cs, netlog |-> nl]
        Framed(line) ==
            IF pe
            THEN IF StartsWithBrace(line) /\ parser /\ JsonLoads(line) # None
                 THEN [same EXCEPT
                         !.netlog = process_event(cs, nl, JsonLoads(line).ok)]
                 ELSE same
            ELSE IF StartsWithConstants(line)
            THEN IF parser /\ JsonLoadsClosed(line) # None
                    /\ Has(JsonLoadsClosed(line).ok, "constants")
                 THEN [same EXCEPT !.constants =
                        process_constants(cs, JsonLoadsClosed(line).ok.constants)]
                 ELSE same
            ELSE IF StartsWithEvents(line)
            THEN [same EXCEPT !.processing_events = TRUE]
            ELSE same
    IN  Framed(Strip(rawline))

\* the body of the try in process_netlog_stream, under the lock
StreamLine(pe, cs, nl, recording, parser, rawline) ==
    LET same == [processing_events |-> pe, constants |-> cs, netlog |-> nl]
        Framed(line) ==
            IF pe
            THEN IF recording /\ StartsWithBrace(line) /\ parser
                 THEN IF JsonLoads(line) = None THEN same
                      ELSE [same EXCEPT
                              !.netlog = process_event(cs, nl, JsonLoads(line).ok)]
                 ELSE same
            ELSE IF StartsWithConstants(line)
            THEN IF parser /\ JsonLoadsClosed(line) # None
                    /\ Has(JsonLoadsClosed(line).ok, "constants")
                 THEN [same EXCEPT !.constants =
                        process_constants(cs, JsonLoadsClosed(line).ok.constants)]
                 ELSE same
            ELSE IF StartsWithEvents(line)
            THEN [same EXCEPT !.processing_events = TRUE]
            ELSE same
    IN  Framed(Strip(rawline))

\* ChromeDesktop.__init__
InitStream ==
    /\ scenario = "stream"
    /\ constants = EmptyDict
    /\ processing_events = FALSE
    /\ netlog = NewNetlog
    /\ netlog_requests = None
    /\ start_time = None
    /\ file = <<>>
    /\ pc = "stream"
    /\ out_file = None
    /\ lock = "none" /\ cpc = "off" /\ hpc = "off"
    /\ pipe = [writer |-> "none", read |-> 0, exists |-> FALSE]
    /\ cd = [netlog_in |-> "none", netlog_out |-> FALSE, recording |-> FALSE,
             parser |-> FALSE, windows |-> 0, copy |-> <<>>]
    /\ cline = None
    /\ snapshot = None

\* a launch that starts the browser along with the thread
launchBrowserFirst ==
    /\ pc = "stream" /\ hpc = "off"
    /\ pipe' = [pipe EXCEPT !.writer = "unopened", !.exists = TRUE]
    /\ cpc' = "start"
    /\ hpc' = "thread_started"
    /\ UNCHANGED <<constants, processing_events, netlog, netlog_requests,
                   start_time, file, pc, scenario, out_file, lock, cd, cline,
                   snapshot>>

\* launch: os.mkfifo(self.netlog_pipe) and self.netlog_thread.start()
launch ==
    /\ pc = "stream" /\ hpc = "off"
    /\ pipe' = [pipe EXCEPT !.exists = TRUE]
    /\ cpc' = "start"
    /\ hpc' = "thread_started"
    /\ UNCHANGED <<constants, processing_events, netlog, netlog_requests,
                   start_time, file, pc, scenario, out_file, lock, cd, cline,
                   snapshot>>

\* launch goes on: self.netlog = NetLogParser(), and the verbatim copy is
\* opened when the job asks for it
NetLogParser ==
    /\ pc = "stream" /\ hpc = "thread_started"
    /\ \E keep \in BOOLEAN :
        cd' = [cd EXCEPT !.netlog_out = keep, !.parser = TRUE]
    /\ hpc' = "parser_made"
    /\ UNCHANGED <<constants, processing_events, netlog, netlog_requests,
                   start_time, file, pc, scenario, out_file, lock, cpc, pipe,
                   cline, snapshot>>

\* launch ends: DesktopBrowser.launch_browser(self, command_line) starts the
\* browser, which has the pipe as its --log-net-log sink
launch_browser ==
    /\ pc = "stream" /\ hpc = "parser_made"
    /\ pipe' = [pipe EXCEPT !.writer = "unopened"]
    /\ hpc' = "idle"
    /\ UNCHANGED <<constants, processing_events, netlog, netlog_requests,
                   start_time, file, pc, scenario, out_file, lock, cpc, cd,
                   cline, snapshot>>

\* the browser opens the pipe for writing, or never comes to it
ProducerOpen ==
    /\ pc = "stream" /\ pipe.writer = "unopened" /\ pipe.exists
    /\ \E w \in {"open", "never"} : pipe' = [pipe EXCEPT !.writer = w]
    /\ UNCHANGED <<constants, processing_events, netlog, netlog_requests,
                   start_time, file, pc, scenario, out_file, lock, cpc, hpc,
                   cd, cline, snapshot>>

\* the browser writes one more line
ProducerWrite ==
    /\ pc = "stream" /\ pipe.writer = "open" /\ cd.netlog_in = "open"
    /\ Len(file) < MaxPipeLines
    /\ \E line \in PipeLines(Len(file)) : file' = Append(file, line)
    /\ UNCHANGED <<constants, processing_events, netlog, netlog_requests,
                   start_time, pc, scenario, out_file, lock, cpc, hpc, pipe,
                   cd, cline, snapshot>>

\* the browser closes the pipe
ProducerClose ==
    /\ pc = "stream" /\ pipe.writer = "open" /\ cd.netlog_in # "none"
    /\ pipe' = [pipe EXCEPT !.writer = "closed"]
    /\ UNCHANGED <<constants, processing_events, netlog, netlog_requests,
                   start_time, file, pc, scenario, out_file, lock, cpc, hpc,
                   cd, cline, snapshot>>

\* with self.netlog_lock:  in process_netlog_stream
ConsumerAcquire ==
    /\ pc = "stream" /\ cpc \in {"start", "copy_wait", "process_wait"}
    /\ Free(lock)
    /\ lock' = "consumer"
    /\ cpc' = CASE cpc = "start" -> "opening"
               [] cpc = "copy_wait" -> "copy_locked"
               [] cpc = "process_wait" -> "process_locked"
    /\ UNCHANGED <<constants, processing_events, netlog, netlog_requests,
                   start_time, file, pc, scenario, out_file, hpc, pipe, cd,
                   cline, snapshot>>

\* self.netlog_in = open(self.netlog_pipe, 'r'), which returns once the pipe
\* has a writer; the lock is held until then
ConsumerOpened ==
    /\ pc = "stream" /\ cpc = "opening"
    /\ pipe.writer \in {"open", "closed"}
    /\ cd' = [cd EXCEPT !.netlog_in = "open"]
    /\ lock' = "none"
    /\ cpc' = "read"
    /\ UNCHANGED <<constants, processing_events, netlog, netlog_requests,
                   start_time, file, pc, scenario, out_file, hpc, pipe, cline,
                   snapshot>>

\* for line in self.netlog_in: the next line, the end of the input when the
\* writer has closed, or ValueError when stop() has closed the file
ConsumerRead ==
    /\ pc = "stream" /\ cpc = "read"
    /\ \/ /\ cd.netlog_in = "closed"
          /\ cpc' = "dead"
          /\ UNCHANGED <<pipe, cline>>
       \/ /\ cd.netlog_in = "open" /\ pipe.read < Len(file)
          /\ cline' = [v |-> file[pipe.read + 1]]
          /\ pipe' = [pipe EXCEPT !.read = @ + 1]
          /\ cpc' = "copy_wait"
       \/ /\ cd.netlog_in = "open" /\ pipe.read = Len(file)
          /\ pipe.writer = "closed"
          /\ cpc' = "done"
          /\ UNCHANGED <<pipe, cline>>
    /\ UNCHANGED <<constants, processing_events, netlog, netlog_requests,
                   start_time, file, pc, scenario, out_file, lock, hpc, cd,
                   snapshot>>

\* if self.netlog_out: self.netlog_out.write(line), outside the try: the
\* copy is opened 'wb' and line is text, so write raises TypeError before
\* anything is written (cd.copy, the lines of the copy, stays as it is), the
\* with-block releases the lock and the thread ends
ConsumerCopy ==
    /\ pc = "stream" /\ cpc = "copy_locked"
    /\ lock' = "none"
    /\ cpc' = IF cd.netlog_out THEN "dead" ELSE "process_wait"
    /\ UNCHANGED <<constants, processing_events, netlog, netlog_requests,
                   start_time, file, pc, scenario, out_file, hpc, pipe, cd,
                   cline, snapshot>>

\* the line is framed and processed, and the lock released
ConsumerProcess ==
    /\ pc = "stream" /\ cpc = "process_locked"
    /\ \E next \in {StreamLine(processing_events, constants, netlog,
                                cd.recording, cd.parser, cline.v)} :
        /\ processing_events' = next.processing_events
        /\ constants' = next.constants
        /\ netlog' = next.netlog
    /\ lock' = "none"
    /\ cpc' = "read"
    /\ UNCHANGED <<netlog_requests, start_time, file, pc, scenario, out_file,
                   hpc, pipe, cd, cline, snapshot>>

\* with self.netlog_lock:  in on_start_recording, on_stop_recording and stop
HarnessAcquire ==
    /\ pc = "stream" /\ hpc \in {"start_wait", "stop_wait", "close_wait"}
    /\ Free(lock)
    /\ lock' = "harness"
    /\ hpc' = CASE hpc = "start_wait" -> "start_locked"
               [] hpc = "stop_wait" -> "stop_locked"
               [] hpc = "close_wait" -> "close_locked"
    /\ snapshot' = netlog
    /\ UNCHANGED <<constants, processing_events, netlog, netlog_requests,
                   start_time, file, pc, scenario, out_file, cpc, pipe, cd,
                   cline>>

\* on_start_recording is called: DesktopBrowser.on_start_recording sets the
\* recording flag
on_start_recording ==
    /\ pc = "stream" /\ hpc = "idle" /\ cd.windows < MaxWindows
    /\ cd' = [cd EXCEPT !.recording = TRUE, !.windows = @ + 1]
    /\ hpc' = "start_wait"
    /\ UNCHANGED <<constants, processing_events, netlog, netlog_requests,
                   start_time, file, pc, scenario, out_file, lock, cpc, pipe,
                   cline, snapshot>>

\* an on_start_recording that takes the lock and leaves the store as it is
ClearSkipped ==
    /\ pc = "stream" /\ hpc = "start_locked"
    /\ lock' = "none"
    /\ hpc' = "recording"
    /\ UNCHANGED <<constants, processing_events, netlog, netlog_requests,
                   start_time, file, pc, scenario, out_file, cpc, pipe, cd,
                   cline, snapshot>>

\* self.netlog.clear_requests(), and the lock released
ClearRequests ==
    /\ pc = "stream" /\ hpc = "start_locked"
    /\ netlog' = clear_requests(netlog)
    /\ netlog_requests' = None
    /\ start_time' = None
    /\ lock' = "none"
    /\ hpc' = "recording"
    /\ UNCHANGED <<constants, processing_events, file, pc, scenario, out_file,
                   cpc, pipe, cd, cline, snapshot>>

\* on_stop_recording is called: DesktopBrowser.on_stop_recording clears the
\* recording flag
on_stop_recording ==
    /\ pc = "stream" /\ hpc = "recording"
    /\ cd' = [cd EXCEPT !.recording = FALSE]
    /\ hpc' = "stop_wait"
    /\ UNCHANGED <<constants, processing_events, netlog, netlog_requests,
                   start_time, file, pc, scenario, out_file, lock, cpc, pipe,
                   cline, snapshot>>

\* if self.netlog: self.netlog.write_netlog_requests(path), and the lock
\* released
EmitRequests ==
    /\ pc = "stream" /\ hpc = "stop_locked"
    /\ \E ok \in BOOLEAN :
        \E out \in {write_netlog_requests(netlog, netlog_requests, start_time,
                                          None, ok)} :
           /\ netlog' = out.nl
           /\ netlog_requests' = IF out.raised = "" THEN out.requests
                                 ELSE netlog_requests
           /\ start_time' = out.start_time
           /\ out_file' = out.out_file
           /\ hpc' = IF out.raised = "" THEN "idle" ELSE "raised"
    /\ lock' = "none"
    /\ UNCHANGED <<constants, processing_events, file, pc, scenario, cpc,
                   pipe, cd, cline, snapshot>>

\* stop is called: self.netlog_thread.join(60) returns when the thread has
\* ended or the minute is over
stop ==
    /\ pc = "stream" /\ hpc = "idle"
    /\ hpc' = "close_wait"
    /\ UNCHANGED <<constants, processing_events, netlog, netlog_requests,
                   start_time, file, pc, scenario, out_file, lock, cpc, pipe,
                   cd, cline, snapshot>>

\* self.netlog_in.close() under the lock, then os.unlink(self.netlog_pipe)
\* and self.netlog = None
CloseNetlog ==
    /\ pc = "stream" /\ hpc = "close_locked"
    /\ cd' = [cd EXCEPT !.netlog_in = IF @ = "none" THEN "none" ELSE "closed",
                        !.parser = FALSE]
    /\ pipe' = [pipe EXCEPT !.exists = FALSE]
    /\ lock' = "none"
    /\ hpc' = "stopped"
    /\ UNCHANGED <<constants, processing_events, netlog, netlog_requests,
                   start_time, file, pc, scenario, out_file, cpc, cline,
                   snapshot>>

NextStream ==
    \/ launch \/ NetLogParser \/ launch_browser
    \/ ProducerOpen \/ ProducerWrite \/ ProducerClose
    \/ ConsumerAcquire \/ ConsumerOpened \/ ConsumerRead \/ ConsumerCopy
    \/ ConsumerProcess
    \/ HarnessAcquire \/ on_start_recording \/ ClearRequests
    \/ on_stop_recording \/ EmitRequests \/ stop \/ CloseNetlog

SpecStream == InitStream /\ [][NextStream]_vars

-----------------------------------------------------------------------------
(* C11 *)

\* a line that holds only whitespace or a comma, or that does not decode
Malformed(rawline) ==
    \/ Strip(rawline) = <<>>
    \/ StartsWithBrace(Strip(rawline)) /\ JsonLoads(Strip(rawline)) = None
                                      /\ JsonLoadsClosed(Strip(rawline)) = None

\* the thread has ended, by the end of the input or by an exception, and not
\* because stop() closed its file
ConsumerEnded == cpc \in {"done", "dead"} /\ cd.netlog_in = "open"

-----------------------------------------------------------------------------
(* C12 *)

ConsumerLocked == {"opening", "copy_locked", "process_locked"}
HarnessLocked == {"start_locked", "stop_locked", "close_locked"}

\* C12: mutual exclusion: the consumer's critical sections (the write to
\* the verbatim copy, process_constants and process_event) never overlap
\* with the harness's (clear_requests, write_netlog_requests), and the store
\* is the same from the moment the harness takes the lock to the moment it
\* does its work, so post-processing runs on a store no event modifies.
C12_MutualExclusion ==
    pc = "stream" =>
        /\ ~ (cpc \in ConsumerLocked /\ hpc \in HarnessLocked)
        /\ cpc \in ConsumerLocked => lock = "consumer"
        /\ hpc \in HarnessLocked => lock = "harness" /\ netlog = snapshot

\* the harness holds the lock to emit a store with a request in it while the
\* consumer waits for the lock with an event line in hand
C12_Witness ==
    /\ pc = "stream"
    /\ hpc = "stop_locked" /\ lock = "harness"
    /\ Has(netlog, "url_request")
    /\ cpc = "process_wait"
    /\ JsonLoads(Strip(cline.v)) # None

-----------------------------------------------------------------------------
(* C13 *)

\* C13: shutdown always completes: stop() never waits forever on the lock;
\* while it waits for the lock some process can take a step, also when the
\* browser never opens the pipe for writing or never closes it.
C13_ShutdownCompletes ==
    (pc = "stream" /\ hpc = "close_wait") => ENABLED NextStream

-----------------------------------------------------------------------------
(* C14 *)

\* the events the browser may log, whatever their time
LoggableEvents ==
    {Event(t.name, t.source, t.id, t.phase, TickUs, t.params) :
        t \in Templates("stream")}

\* the step of on_start_recording that clears
Clears == hpc = "start_locked" /\ hpc' = "recording"

-----------------------------------------------------------------------------
(* C15 *)

\* C15: recording windows are isolated: the entity store is cleared after
\* each emission; when on_stop_recording has returned, the store holds no
\* URL request and no emitted array, so a later window starts from nothing.
C15_ClearedAfterEmission ==
    (pc = "stream" /\ hpc = "idle" /\ cd.windows > 0)
    => ~ Has(netlog, "url_request") /\ netlog_requests = None

-----------------------------------------------------------------------------
(* C22 *)

\* C22: every request record of the emitted array carries the mandatory
\* fields id, url, start and end.
C22_MandatoryFields ==
    \A i \in DOMAIN Emitted :
        \A field \in {"id", "url", "start", "end"} : Has(Emitted[i], field)

-----------------------------------------------------------------------------
(* C23 *)

\* C23: when the caller requested a verbatim copy, every line the consumer
\* has read and taken past the copying step is in the copy, in arrival
\* order, whether or not recording is on, and the consumer goes on: the
\* thread ends only at the end of the input or when stop() closes its file.
C23_VerbatimCopy ==
    (pc = "stream" /\ cd.netlog_out) =>
        /\ cpc = "dead" => cd.netlog_in = "closed"
        /\ cpc \in {"process_wait", "process_locked", "read", "done"}
            => cd.copy = SubSeq(file, 1, pipe.read)

-----------------------------------------------------------------------------
(* C21 *)

\* the logged URL_REQUEST_JOB_BYTES_READ events of a URL request that carry
\* a byte count, by position
RawBytesAt(id) ==
    {i \in LoggedAt :
        \E ev \in {Logged(i)} :
            /\ ev.type = TypeCode("URL_REQUEST_JOB_BYTES_READ")
            /\ ev.source.type = SourceCode("URL_REQUEST")
            /\ ev.source.id = PyInt(id)
            /\ Has(ev.params, "byte_count")}

RECURSIVE SumByteCount(_)
SumByteCount(at) ==
    IF at = {} THEN 0
    ELSE LET i == SetMin(at)
         IN  Logged(i).params.byte_count + SumByteCount(at \ {i})

\* C21: a URL request that observed URL_REQUEST_JOB_BYTES_READ events has as
\* bytes_in the sum of their byte counts, wherever the
\* URL_REQUEST_JOB_FILTERED_BYTES_READ events come between them.
C21_BytesInIsRawSum ==
    \A id \in DOMAIN UrlRequests(netlog).at :
        \E at \in {RawBytesAt(id)} :
            at # {} => UrlRequests(netlog).at[id].bytes_in = SumByteCount(at)

-----------------------------------------------------------------------------
(* C24 *)

\* a code of the event is not in the constant tables read so far
UnknownCode(raw) ==
    \/ ~ Has(constants, "logEventTypes")
    \/ ~ Has(constants, "logSourceType")
    \/ ~ Has(constants, "logEventPhase")
    \/ ~ Has(constants.logEventTypes, raw.type)
    \/ ~ Has(constants.logSourceType, raw.source.type)
    \/ ~ Has(constants.logEventPhase, raw.phase)

\* C24: reading an event whose event-type, source-type or phase code is not
\* in the constant tables leaves the store as it was, and the reader goes on.
C24_UnknownCodeIgnored ==
    [][(/\ ReadsLine /\ processing_events
        /\ JsonLoads(LineRead) # None
        /\ UnknownCode(EventRead))
            => netlog' = netlog /\ pc' = "reading"]_vars

-----------------------------------------------------------------------------
(* C25 *)

\* int(text, 16) for the id texts of the inputs
IntOfText(text) == CASE text = "1" -> 1
                     [] text = "a" -> 10

\* the event with the integer its textual id denotes in the id's place
WithIntegerId(raw) ==
    [raw EXCEPT !.source.id = PyInt(IntOfText(raw.source.id.text))]

\* C25: reading an event whose source id is a text leaves the store that the
\* same event with the integer the text denotes would leave.
C25_TextIdAsInteger ==
    [][(/\ ReadsLine /\ processing_events
        /\ JsonLoads(LineRead) # None
        /\ EventRead.source.id.t = "str")
            => netlog' = process_event(constants, netlog,
                                       WithIntegerId(EventRead))]_vars

-----------------------------------------------------------------------------
(* C26 *)

\* the event names of the inputs that begin with HOST_RESOLVER
BeginsWithHostResolver ==
    {"HOST_RESOLVER_IMPL_REQUEST", "HOST_RESOLVER_IMPL_ATTEMPT_STARTED",
     "HOST_RESOLVER_IMPL_ATTEMPT_FINISHED", "HOST_RESOLVER_IMPL_CACHE_HIT",
     "HOST_RESOLVER_IMPL_JOB"}

\* the one handler the routing rule designates: the DNS handler for a
\* resolver event, else the handler of the source kind, else none
HandlerFor(name, sname) ==
    IF name \in BeginsWithHostResolver THEN "dns"
    ELSE CASE sname = "HOST_RESOLVER_IMPL_JOB" -> "dns"
           [] sname \in {"CONNECT_JOB", "SSL_CONNECT_JOB",
                         "TRANSPORT_CONNECT_JOB"} -> "connect_job"
           [] sname = "HTTP_STREAM_JOB"  -> "stream_job"
           [] sname = "HTTP2_SESSION"    -> "h2_session"
           [] sname = "QUIC_SESSION"     -> "quic_session"
           [] sname = "SOCKET"           -> "socket"
           [] sname = "UDP_SOCKET"       -> "udp_socket"
           [] sname = "URL_REQUEST"      -> "url_request"
           [] sname = "DISK_CACHE_ENTRY" -> "disk_cache"
           [] OTHER                      -> "none"

\* the store after that handler alone has handled the event
HandledBy(handler, nl, ev) ==
    CASE handler = "dns"          -> ProcessNetlogDnsEvent(nl, ev)
      [] handler = "connect_job"  -> ProcessNetlogConnectJobEvent(nl, ev)
      [] handler = "stream_job"   -> ProcessNetlogStreamJobEvent(nl, ev)
      [] handler = "h2_session"   -> ProcessNetlogHttp2SessionEvent(nl, ev)
      [] handler = "quic_session" -> ProcessNetlogQuicSessionEvent(nl, ev)
      [] handler = "socket"       -> ProcessNetlogSocketEvent(nl, ev)
      [] handler = "udp_socket"   -> ProcessNetlogUdpSocketEvent(nl, ev)
      [] handler = "url_request"  -> ProcessNetlogUrlRequestEvent(nl, ev)
      [] handler = "disk_cache"   -> ProcessNetlogDiskCacheEvent(nl, ev)
      [] handler = "none"         -> nl

\* this step read an event with known codes and a numeric id
ReadsRoutedEvent ==
    /\ ReadsLine /\ processing_events
    /\ JsonLoads(LineRead) # None
    /\ EventRead.source.id.t = "int"
    /\ NormalizeEvent(constants, EventRead) # None

-----------------------------------------------------------------------------
(* C27 *)

\* C27: a DNS job that saw only HOST_RESOLVER_IMPL_REQUEST events has as
\* start the least time of its PHASE_BEGIN events and as end the greatest
\* time of its PHASE_END events.
C27_DnsJobStartEnd ==
    scenario = "dnsjob" =>
        \A id \in DOMAIN TableOf(netlog, "dns").at :
            \E job \in {netlog.dns.at[id]} :
                /\ \E begins \in {LoggedTimes("HOST_RESOLVER_IMPL_REQUEST",
                                    "HOST_RESOLVER_IMPL_JOB", id, "PHASE_BEGIN")} :
                        begins # {} =>
                            Has(job, "start") /\ job.start = SetMin(begins)
                /\ \E ends \in {LoggedTimes("HOST_RESOLVER_IMPL_REQUEST",
                                    "HOST_RESOLVER_IMPL_JOB", id, "PHASE_END")} :
                        ends # {} => Has(job, "end") /\ job.end = SetMax(ends)

-----------------------------------------------------------------------------
(* C28 *)

\* the logged event at i is that event of a stream job
StreamJobEventAt(i, name) ==
    /\ Logged(i).type = TypeCode(name)
    /\ Logged(i).source.type = SourceCode("HTTP_STREAM_JOB")
    /\ Has(Logged(i).params, "source_dependency")

\* the logged event at i is an event of URL request r
UrlRequestEventAt(i, r) ==
    Logged(i).source = [type |-> SourceCode("URL_REQUEST"), id |-> PyInt(r)]

\* C28: once a stream job has seen SOCKET_POOL_BOUND_TO_SOCKET (socket s) and
\* HTTP_STREAM_JOB_BOUND_TO_REQUEST (request r, which existed before both),
\* in either order, r has the socket s and the job's group.
C28_BoundInEitherOrder ==
    \A a, b, c \in LoggedAt :
        (/\ StreamJobEventAt(a, "SOCKET_POOL_BOUND_TO_SOCKET")
         /\ StreamJobEventAt(b, "HTTP_STREAM_JOB_BOUND_TO_REQUEST")
         /\ Logged(a).source.id = Logged(b).source.id
         /\ c < a /\ c < b
         /\ UrlRequestEventAt(c, Logged(b).params.source_dependency.id))
        => \E r \in {Logged(b).params.source_dependency.id},
              job \in {netlog.stream_job.at[Logged(a).source.id.v]} :
                /\ TblHas(UrlRequests(netlog), r)
                /\ Has(netlog.url_request.at[r], "socket")
                /\ netlog.url_request.at[r].socket
                        = Logged(a).params.source_dependency.id
                /\ Has(job, "group") =>
                        /\ Has(netlog.url_request.at[r], "group")
                        /\ netlog.url_request.at[r].group = job.group

-----------------------------------------------------------------------------
(* C29 *)

\* the logged event at i is HTTP2_SESSION_INITIALIZED on a session, naming
\* as its source dependency a socket that an earlier logged event created
SessionInitializedAt(i) ==
    /\ Logged(i).type = TypeCode("HTTP2_SESSION_INITIALIZED")
    /\ Logged(i).source.type = SourceCode("HTTP2_SESSION")
    /\ Has(Logged(i).params, "source_dependency")
    /\ \E j \in LoggedAt :
        /\ j < i
        /\ Logged(j).source = [type |-> SourceCode("SOCKET"),
                               id |-> PyInt(Logged(i).params.source_dependency.id)]

\* C29: after HTTP2_SESSION_INITIALIZED on session h naming the existing
\* socket s, h has the socket s, the record of socket s has h2_session = h,
\* and the socket table holds nothing but socket records under socket ids.
C29_SessionSocketLinks ==
    \A i \in LoggedAt :
        SessionInitializedAt(i) =>
            \E h \in {Logged(i).source.id.v},
               s \in {Logged(i).params.source_dependency.id} :
                /\ netlog.h2_session.at[h].socket = s
                /\ Has(netlog.socket.at[s], "h2_session")
                /\ netlog.socket.at[s].h2_session = h
                /\ DOMAIN netlog.socket = {"ids", "at"}

-----------------------------------------------------------------------------
(* C30 *)

\* C30: a step that allocates a synthetic id takes one that is not a key of
\* the URL-request table, and next_request_id only grows.
C30_SyntheticIdFresh ==
    [][/\ netlog'.next_request_id >= netlog.next_request_id
       /\ netlog'.next_request_id # netlog.next_request_id
            => ~ TblHas(UrlRequests(netlog), netlog.next_request_id)]_vars

-----------------------------------------------------------------------------
(* C31 *)

\* the emitted requests that failed-host synthesis made
Synthesized == {i \in DOMAIN Emitted :
                    Has(Emitted[i], "status") /\ Emitted[i].status = 12029}

\* C31: a synthesized status-12029 request is for a host that no URL request
\* in the store names and that a stream job with socket_start and no socket
\* asked for; it starts at that job's socket_start (as a normalized time)
\* and does not end before it starts.
C31_FailedHostRequest ==
    \A i \in Synthesized :
        \E host \in {UrlHostname(Emitted[i].url)} :
            /\ host \notin RequestedHosts
            /\ \E id \in UnboundJobs(host) :
                    Emitted[i].start
                        = ToMs(netlog.stream_job.at[id].socket_start, start_time.v)
            /\ Emitted[i]["end"] >= Emitted[i].start

-----------------------------------------------------------------------------
(* C32 *)

\* the recorded DNS windows of a host, as normalized [start, end] intervals
RecordedWindows(host) ==
    IF ~ Has(netlog, "dns") THEN {}
    ELSE {[start |-> ToMs(netlog.dns.at[id].start, start_time.v),
           end   |-> ToMs(netlog.dns.at[id]["end"], start_time.v)] :
            id \in {x \in Range(netlog.dns.ids) :
                        \E dns \in {netlog.dns.at[x]} :
                            /\ Has(dns, "host") /\ Has(dns, "start")
                            /\ Has(dns, "end") /\ Has(dns, "address_list")
                            /\ dns["end"] >= dns.start
                            /\ HostPart(dns.host) = host}}

\* C32: the dns_start and dns_end of a request that has connect_start are
\* the start and end of a recorded DNS window of the request's host that
\* ends at or before connect_start, and no recorded window of the host that
\* ends at or before connect_start is longer.
C32_LongestWindowBeforeConnect ==
    \A i \in DOMAIN Emitted :
        \E r \in {Emitted[i]} :
            (Has(r, "connect_start") /\ Has(r, "dns_start")) =>
                \E before \in {{w \in RecordedWindows(UrlHostname(r.url)) :
                                    w["end"] <= r.connect_start}} :
                    /\ [start |-> r.dns_start, end |-> r.dns_end] \in before
                    /\ \A w \in before :
                        w["end"] - w.start <= r.dns_end - r.dns_start

-----------------------------------------------------------------------------
(* C33 *)

\* the sort key of a request: start, or created when start is absent
KeyOf(r) == IF Has(r, "start") THEN r.start ELSE r.created

\* the URL requests of the store that are the emitted record
EntitiesAt(nl, record) ==
    {id \in Range(UrlRequests(nl).ids) : UrlRequests(nl).at[id] = record}

\* C33: the emitted array is in the order of the sort key (start, or created
\* when start is absent), both for the normalized times it carries and for
\* the times the requests had when the array was sorted.
C33_EmittedSorted ==
    [][Emits =>
        \A i, j \in DOMAIN Emitted' :
            i < j =>
                /\ KeyOf(Emitted'[i]) <= KeyOf(Emitted'[j])
                /\ \A a \in EntitiesAt(netlog', Emitted'[i]),
                      b \in EntitiesAt(netlog', Emitted'[j]) :
                        KeyOf(UrlRequests(netlog).at[a])
                            <= KeyOf(UrlRequests(netlog).at[b])
    ]_vars

\* two requests were emitted in the order of their start times, which is
\* not the order in which they were collected: the request synthesized for
\* a failed host, collected last, comes before a URL request of the store
C33_Witness ==
    /\ pc = "written" /\ Len(Emitted) = 2
    /\ KeyOf(Emitted[1]) < KeyOf(Emitted[2])
    /\ Has(Emitted[1], "status") /\ Emitted[1].status = 12029
    /\ EntitiesAt(netlog, Emitted[2]) # {}

-----------------------------------------------------------------------------
(* C34 *)

\* the URL requests of the store that are marked phantom or have, after the
\* HTTP/2 backfill, no request headers
Dropped(nl) ==
    {id \in Range(UrlRequests(nl).ids) :
        \/ Has(UrlRequests(nl).at[id], "phantom")
        \/ ~ Has(UrlRequests(nl).at[id], "request_headers")}

\* C34: no URL request that is marked phantom, and none that is without
\* request headers after the HTTP/2 backfill, is in the emitted array.
C34_PhantomsFiltered ==
    \A id \in Dropped(netlog) :
        \A i \in DOMAIN Emitted : Emitted[i] # UrlRequests(netlog).at[id]

\* an array was emitted while the store holds a phantom request that has
\* request headers and a request without request headers, both with a URL
C34_Witness ==
    /\ pc = "written" /\ Len(Emitted) > 0
    /\ \E id \in Dropped(netlog) :
        /\ Has(UrlRequests(netlog).at[id], "phantom")
        /\ Has(UrlRequests(netlog).at[id], "request_headers")
        /\ Has(UrlRequests(netlog).at[id], "url")
    /\ \E id \in Dropped(netlog) :
        /\ ~ Has(UrlRequests(netlog).at[id], "request_headers")
        /\ ~ Has(UrlRequests(netlog).at[id], "phantom")
        /\ Has(UrlRequests(netlog).at[id], "url")

-----------------------------------------------------------------------------
(* C35 *)

\* C35: the framer has two modes: a line read before the "events": [ line
\* is not dispatched as an event; once that line was read the framer stays
\* in event mode, and a line read in event mode, a {"constants": line
\* included, leaves the constant tables as they are.
C35_TwoModeFramer ==
    [][/\ (ReadsLine /\ ~ processing_events) => netlog' = netlog
       /\ processing_events => processing_events'
       /\ (ReadsLine /\ processing_events) => constants' = constants
       /\ processing_events' =>
            \E i \in DOMAIN file' : StartsWithEvents(Strip(file'[i]))]_vars

\* after the constants line an event line came before the "events": [ line
\* and left the store empty, a {"constants": line came after it, and the
\* framer is in event mode
C35_Witness ==
    /\ pc = "reading" /\ processing_events
    /\ \E i, j \in DOMAIN file :
        /\ i < j /\ j < EventsMarkAt
        /\ StartsWithConstants(Strip(file[i]))
        /\ JsonLoads(Strip(file[j])) # None
    /\ \E i \in DOMAIN file : i > EventsMarkAt /\ StartsWithConstants(Strip(file[i]))
    /\ ~ Has(netlog, "url_request")

-----------------------------------------------------------------------------
(* C36 *)

\* C36: whatever the store holds, post_process_netlog_events returns (an
\* array or no requests): write_netlog_requests never ends by an error of
\* post-processing.
C36_PostProcessReturns == pc # "raised"

-----------------------------------------------------------------------------
(* C37 *)

\* how many lines of the pipe the consumer has read and dealt with
Applied ==
    IF cpc \in {"copy_wait", "copy_locked", "process_wait", "process_locked"}
    THEN pipe.read - 1 ELSE pipe.read

\* on_stop_recording takes the lock
StopTakesLock == pc = "stream" /\ hpc = "stop_wait" /\ hpc' = "stop_locked"

\* C37: when on_stop_recording takes the lock to emit (no verbatim copy
\* being kept), the consumer has read and dealt with every event line that
\* the browser wrote to the pipe before.
C37_EmissionAfterDrain ==
    [][(StopTakesLock /\ ~ cd.netlog_out) =>
        \A i \in DOMAIN file :
            JsonLoads(Strip(file[i])) # None => i <= Applied]_vars

\* the thread has the lock and frames a line that starts with {"constants":
ProcessesConstantsLine ==
    /\ pc = "stream" /\ cpc = "process_locked" /\ cpc' = "read"
    /\ ~ processing_events
    /\ StartsWithConstants(Strip(cline.v))

\* C38: whenever the thread of launch comes to the constants line, before
\* stop has dropped the parser, the parser is assigned and the constants are
\* taken; and the pipe has a writer only after launch has started the browser
C38_ParserBeforeConstants ==
    [][/\ (ProcessesConstantsLine /\ hpc # "stopped")
            => (cd.parser /\ constants' # EmptyDict)
       /\ pipe.writer \in {"open", "closed"}
            => hpc \notin {"off", "thread_started", "parser_made"}]_vars

C38_Witness ==
    /\ pc = "stream" /\ cpc = "read" /\ pipe.read = 1
    /\ hpc # "stopped" /\ cd.parser
    /\ constants # EmptyDict

\* the thread has the lock and handles a line in event mode
ProcessesEventLine ==
    /\ pc = "stream" /\ cpc = "process_locked" /\ cpc' = "read"
    /\ processing_events

\* C39: the thread changes the store only on a step that handles a line in
\* event mode with the recording flag set; a line handled in event mode with
\* the flag off leaves the store as it was; and the constants line is taken
\* with the flag on as with the flag off
C39_RecordingGate ==
    [][/\ (pc = "stream" /\ cpc = "process_locked" /\ netlog' # netlog)
            => (ProcessesEventLine /\ cd.recording)
       /\ (ProcessesEventLine /\ ~ cd.recording) => netlog' = netlog
       /\ (ProcessesConstantsLine /\ cd.parser)
            => constants' = process_constants(constants,
                                JsonLoadsClosed(Strip(cline.v)).ok.constants)]_vars

\* an event line has been handled and recording has never been on
C39_Witness ==
    /\ pc = "stream" /\ cpc = "read" /\ pipe.read >= 3
    /\ cd.windows = 0 /\ cd.parser
    /\ processing_events /\ constants # EmptyDict
    /\ JsonLoads(Strip(file[3])) # None
    /\ netlog = NewNetlog

\* the streams of the HTTP/2 sessions of a store, as <<session, stream>>
H2Streams(nl) ==
    UNION {{<<s, t>> : t \in DOMAIN nl.h2_session.at[s].stream} :
                s \in DOMAIN TableOf(nl, "h2_session").at}

\* C40: while the events are being read, each socket's bytes_in and bytes_out
\* are the sums of its chunks_in and chunks_out, each URL request's bytes_in
\* is the sum of its chunks, and each HTTP/2 stream's bytes_in is the sum of
\* its chunks.
C40_CountersMatchChunks ==
    pc = "reading" =>
        /\ \A id \in DOMAIN TableOf(netlog, "socket").at :
            \E e \in {netlog.socket.at[id]} :
                /\ e.bytes_in = SumBytes(e.chunks_in)
                /\ e.bytes_out = SumBytes(e.chunks_out)
        /\ \A id \in DOMAIN UrlRequests(netlog).at :
            \E e \in {UrlRequests(netlog).at[id]} :
                e.bytes_in = SumBytes(e.chunks)
        /\ \A p \in H2Streams(netlog) :
            \E e \in {netlog.h2_session.at[p[1]].stream[p[2]]} :
                e.bytes_in = SumBytes(e.chunks)

\* a socket that sent and received, the TCP and the UDP way, an HTTP/2 stream
\* and a URL request that received
C40_Witness ==
    /\ pc = "reading"
    /\ \E id \in DOMAIN TableOf(netlog, "socket").at :
            /\ Len(netlog.socket.at[id].chunks_in) = 2
            /\ Len(netlog.socket.at[id].chunks_out) = 2
            /\ netlog.socket.at[id].bytes_in = 60
            /\ netlog.socket.at[id].bytes_out = 40
    /\ \E id \in DOMAIN UrlRequests(netlog).at :
            UrlRequests(netlog).at[id].bytes_in = 60
    /\ \E p \in H2Streams(netlog) :
            netlog.h2_session.at[p[1]].stream[p[2]].bytes_in = 50

====
